---------------------------- MODULE Spec2Model ----------------------------
(***************************************************************************)
(* Model of the Polly-API analytics layer (src/api/analytics).             *)
(*                                                                         *)
(* The store (users, polls, options, votes) is owned by the rest of the    *)
(* application; the analytics service reads it and builds result objects.  *)
(* Timestamps are whole minutes since an arbitrary epoch.  Floating point  *)
(* quotients are modelled as exact fractions [num, den] in lowest terms.   *)
(* A query without ORDER BY returns its rows in an order the store picks:  *)
(* every operation that issues such a query takes the row order as an      *)
(* input.                                                                  *)
(***************************************************************************)
EXTENDS Integers, Sequences, FiniteSets, TLC

VARIABLES polls, options, votes, now, result, calc

vars == <<polls, options, votes, now, result, calc>>

(***************************************************************************)
(* Bounds of the model.                                                    *)
(***************************************************************************)
MaxPolls == 2

MaxVotes == 3

MaxViews == 1

Users == {1, 2}

OptionTexts == {<<"Yes", "No">>, <<"Yes", "Yes">>, <<"Yes">>}

(***************************************************************************)
(* Units of time.                                                          *)
(***************************************************************************)
MinutesPerHour == 60

MinutesPerDay == 1440

Days(n) == n * MinutesPerDay

ClockSkews == {0, 90}

(***************************************************************************)
(* Arithmetic helpers: exact fractions stand for Python floats.            *)
(***************************************************************************)
Abs(x) == IF x < 0 THEN -x ELSE x

Min(a, b) == IF a <= b THEN a ELSE b

Max(a, b) == IF a >= b THEN a ELSE b

RECURSIVE Gcd(_, _)
Gcd(a, b) == IF b = 0 THEN a ELSE Gcd(b, a % b)

\* n / d for d > 0, in lowest terms
Rat(n, d) ==
    LET g == Gcd(Abs(n), d)
    IN  IF n = 0 THEN [num |-> 0, den |-> 1]
        ELSE [num |-> n \div g, den |-> d \div g]

Zero == Rat(0, 1)

RatLE(a, b) == a.num * b.den <= b.num * a.den

RatLT(a, b) == a.num * b.den < b.num * a.den

RECURSIVE SeqSum(_)
SeqSum(s) == IF s = <<>> THEN 0 ELSE Head(s) + SeqSum(Tail(s))

RECURSIVE SetSum(_, _)
SetSum(S, f) ==
    IF S = {} THEN 0
    ELSE LET x == CHOOSE y \in S : TRUE
         IN  f[x] + SetSum(S \ {x}, f)

\* every order in which a store may return the rows of the set S
RowOrders(S) ==
    {r \in [1..Cardinality(S) -> S] : \A x \in S : \E i \in DOMAIN r : r[i] = x}

None == <<>>

Some(x) == <<x>>

NoResult == [op |-> "none", state |-> "idle"]

(***************************************************************************)
(* The store: tables Poll, Option and Vote, and the clock.                 *)
(***************************************************************************)
PollIds == DOMAIN polls

OptionIds == DOMAIN options

VoteIds == DOMAIN votes

OptionsOf(poll_id) == {o \in OptionIds : options[o].poll_id = poll_id}

\* Vote JOIN Option WHERE Option.poll_id = poll_id
VotesOfPoll(poll_id) == {v \in VoteIds : options[votes[v].option_id].poll_id = poll_id}

VotesOfOption(o) == {v \in VoteIds : votes[v].option_id = o}

\* func.count(Vote.id) ... filter(Option.poll_id == poll_id) ... scalar() or 0
VoteCount(poll_id) == Cardinality(VotesOfPoll(poll_id))

\* getattr(poll, 'view_count', 0)
ViewCount(poll_id) == polls[poll_id].view_count

Init ==
    /\ polls = <<>>
    /\ options = <<>>
    /\ votes = <<>>
    /\ now = 0
    /\ result = NoResult
    /\ calc = NoResult

\* a user creates a poll with its options; skew is how far the creating
\* host's clock runs ahead of the clock the analytics service reads
CreatePoll(owner, texts, skew) ==
    /\ Len(polls) < MaxPolls
    /\ polls' = Append(polls, [owner_id |-> owner, created_at |-> now + skew,
                               view_count |-> 0])
    /\ options' = options \o [i \in 1..Len(texts) |->
                                [poll_id |-> Len(polls) + 1, text |-> texts[i]]]
    /\ result' = NoResult
    /\ UNCHANGED <<votes, now, calc>>

ViewPoll(poll_id) ==
    /\ poll_id \in PollIds
    /\ polls[poll_id].view_count < MaxViews
    /\ polls' = [polls EXCEPT ![poll_id].view_count = @ + 1]
    /\ result' = NoResult
    /\ UNCHANGED <<options, votes, now, calc>>

\* a user votes for an option
CastVote(option_id, user_id) ==
    /\ Len(votes) < MaxVotes
    /\ option_id \in OptionIds
    /\ votes' = Append(votes, [option_id |-> option_id, user_id |-> user_id,
                               created_at |-> now])
    /\ result' = NoResult
    /\ UNCHANGED <<polls, options, now, calc>>

AdvanceClock(t) ==
    /\ t > now
    /\ now' = t
    /\ result' = NoResult
    /\ UNCHANGED <<polls, options, votes, calc>>

(***************************************************************************)
(* The exceptions the service raises: the Python type, the names of the    *)
(* classes of type(e).__mro__ (an except clause matches an exception whose *)
(* class or one of whose base classes it names) and the message str(e).    *)
(***************************************************************************)
ValueErrorMro == <<"ValueError", "Exception", "BaseException", "object">>

\* raise ValueError("User ID must be positive")
InvalidUserId ==
    [type |-> "ValueError", mro |-> ValueErrorMro, message |-> "User ID must be positive"]

\* a variant that raises a lookup error of its own type
PollNotFound_LookupError ==
    [type |-> "LookupError",
     mro |-> <<"LookupError", "Exception", "BaseException", "object">>,
     message |-> "Poll with ID not found"]

\* raise ValueError(f"Poll with ID {poll_id} not found")
PollNotFound ==
    [type |-> "ValueError", mro |-> ValueErrorMro, message |-> "Poll with ID not found"]

\* raise ValueError(f"Invalid timeframe: {timeframe}")
InvalidTimeframe ==
    [type |-> "ValueError", mro |-> ValueErrorMro, message |-> "Invalid timeframe"]

\* isinstance(exception, cls)
IsInstance(exception, cls) == \E i \in DOMAIN exception.mro : exception.mro[i] = cls

\* raise RuntimeError(f"Failed to generate analytics overview: {str(e)}")
OverviewFailure(exception) ==
    [type |-> "RuntimeError",
     mro |-> <<"RuntimeError", "Exception", "BaseException", "object">>,
     message |-> "Failed to generate analytics overview: " \o exception.message]

\* a variant whose first except clause is `except Exception`: every
\* exception is wrapped
OverviewExcept_WrapsAll(exception) == OverviewFailure(exception)

(***************************************************************************)
(* Query.join(target) without an ON clause.  The ORM looks for the left    *)
(* side of the join among the tables the query selects from: a table       *)
(* qualifies when a foreign key links it with the target, in either        *)
(* direction.  With one such table the join is made; with several the ORM  *)
(* raises InvalidRequestError before any row is read (SQLAlchemy 1.3 and   *)
(* later).                                                                 *)
(***************************************************************************)
\* the foreign keys of the tables: Option.poll_id, Vote.option_id,
\* Vote.user_id, Poll.owner_id
ForeignKeys ==
    {<<"options", "polls">>, <<"votes", "options">>, <<"votes", "users">>,
     <<"polls", "users">>}

CanJoin(a, b) == <<a, b>> \in ForeignKeys \/ <<b, a>> \in ForeignKeys

\* the tables of the FROM list that qualify as the left side of a join to target
JoinLeftSides(froms, target) == {f \in froms \ {target} : CanJoin(f, target)}

\* sqlalchemy.exc.InvalidRequestError, raised for an ambiguous left side
AmbiguousJoin ==
    [type |-> "InvalidRequestError",
     mro |-> <<"InvalidRequestError", "SQLAlchemyError", "Exception",
               "BaseException", "object">>,
     message |-> "Can't determine which FROM clause to join from, there are multiple FROMS which can join to this entity"]

\* sqlalchemy.exc.InvalidRequestError, raised when no table qualifies
NoJoinPath ==
    [type |-> "InvalidRequestError",
     mro |-> <<"InvalidRequestError", "SQLAlchemyError", "Exception",
               "BaseException", "object">>,
     message |-> "Don't know how to join to this entity"]

\* the exception that .join(target) ends in for a query that selects from
\* `froms', or None when the left side is determined
JoinError(froms, target) ==
    IF Cardinality(JoinLeftSides(froms, target)) = 1 THEN None
    ELSE IF JoinLeftSides(froms, target) = {} THEN Some(NoJoinPath)
    ELSE Some(AmbiguousJoin)

(***************************************************************************)
(* Python floats are IEEE-754 doubles.  A fraction of the model stands for *)
(* the double next to it, and the two give the same answer to every        *)
(* comparison and every rounding of the program except where the exact     *)
(* value lies on the threshold or on the rounding tie itself: there the    *)
(* rounding of each operation decides, and the operation sequence of the   *)
(* code is carried out on doubles.  A double is sign, 53-bit mantissa m    *)
(* and exponent e, of value m * 2^e; mantissas and the intermediate        *)
(* products exceed the integers of the model checker, so they are          *)
(* sequences of limbs, least significant first, without a leading zero     *)
(* limb.  Overflow and subnormal numbers are out of reach of the values of *)
(* the program and are not modelled.                                       *)
(***************************************************************************)
LimbBase == 32768

LimbBits == 15

RECURSIVE BigOf(_)
BigOf(n) == IF n = 0 THEN <<>> ELSE <<n % LimbBase>> \o BigOf(n \div LimbBase)

RECURSIVE BigTrim(_)
BigTrim(a) ==
    IF a # <<>> /\ a[Len(a)] = 0 THEN BigTrim(SubSeq(a, 1, Len(a) - 1)) ELSE a

Limb(a, i) == IF i <= Len(a) THEN a[i] ELSE 0

RECURSIVE BigAddFrom(_, _, _, _)
BigAddFrom(a, b, i, carry) ==
    IF i > Len(a) /\ i > Len(b) THEN (IF carry = 0 THEN <<>> ELSE <<carry>>)
    ELSE LET s == Limb(a, i) + Limb(b, i) + carry
         IN  <<s % LimbBase>> \o BigAddFrom(a, b, i + 1, s \div LimbBase)

BigAdd(a, b) == BigAddFrom(a, b, 1, 0)

RECURSIVE BigSubFrom(_, _, _, _)
BigSubFrom(a, b, i, borrow) ==
    IF i > Len(a) THEN <<>>
    ELSE LET s == Limb(a, i) - Limb(b, i) - borrow
         IN  <<s % LimbBase>> \o BigSubFrom(a, b, i + 1, IF s < 0 THEN 1 ELSE 0)

\* a - b for a >= b
BigSub(a, b) == BigTrim(BigSubFrom(a, b, 1, 0))

RECURSIVE BigCmpAt(_, _, _)
BigCmpAt(a, b, i) ==
    IF i = 0 THEN 0
    ELSE IF a[i] # b[i] THEN (IF a[i] < b[i] THEN 0 - 1 ELSE 1)
    ELSE BigCmpAt(a, b, i - 1)

\* -1, 0 or 1 as a is below, equal to or above b
BigCmp(a, b) ==
    IF Len(a) # Len(b) THEN (IF Len(a) < Len(b) THEN 0 - 1 ELSE 1)
    ELSE BigCmpAt(a, b, Len(a))

RECURSIVE BigMulSmallFrom(_, _, _, _)
BigMulSmallFrom(a, k, i, carry) ==
    IF i > Len(a) THEN (IF carry = 0 THEN <<>> ELSE <<carry>>)
    ELSE LET s == a[i] * k + carry
         IN  <<s % LimbBase>> \o BigMulSmallFrom(a, k, i + 1, s \div LimbBase)

\* a * k for a limb k
BigMulSmall(a, k) == IF k = 0 THEN <<>> ELSE BigMulSmallFrom(a, k, 1, 0)

\* a * 2^k
BigShl(a, k) ==
    IF a = <<>> THEN <<>>
    ELSE [i \in 1..(k \div LimbBits) |-> 0] \o BigMulSmall(a, 2^(k % LimbBits))

RECURSIVE BigMul(_, _)
BigMul(a, b) ==
    IF a = <<>> \/ b = <<>> THEN <<>>
    ELSE BigAdd(BigMulSmall(a, Head(b)), BigShl(BigMul(a, Tail(b)), LimbBits))

RECURSIVE BitLen(_)
BitLen(n) == IF n = 0 THEN 0 ELSE 1 + BitLen(n \div 2)

\* the number of bits of a
BigBits(a) ==
    IF a = <<>> THEN 0 ELSE LimbBits * (Len(a) - 1) + BitLen(a[Len(a)])

RECURSIVE BigDivSmallFrom(_, _, _, _)
BigDivSmallFrom(a, k, i, rem) ==
    IF i = 0 THEN [q |-> <<>>, r |-> rem]
    ELSE LET cur == rem * LimbBase + a[i]
             rest == BigDivSmallFrom(a, k, i - 1, cur % k)
         IN  [q |-> rest.q \o <<cur \div k>>, r |-> rest.r]

\* quotient q (limbs) and remainder r (an integer) of a by a limb k > 0
BigDivSmall(a, k) ==
    LET d == BigDivSmallFrom(a, k, Len(a), 0)
    IN  [q |-> BigTrim(d.q), r |-> d.r]

DigitBits == 5

Digits == 0..(2^DigitBits - 1)

\* quotient q and remainder r of n by d > 0, a digit of DigitBits bits at a
\* time: the quotient by d * 2^DigitBits, then the digit that the remainder
\* holds
RECURSIVE BigDivMod(_, _)
BigDivMod(n, d) ==
    IF BigCmp(n, d) < 0 THEN [q |-> <<>>, r |-> n]
    ELSE CHOOSE qr \in
            {[q |-> BigAdd(BigShl(hc[1].q, DigitBits), BigOf(hc[2])),
              r |-> BigSub(hc[1].r, BigMulSmall(d, hc[2]))] :
                hc \in {<<h, CHOOSE c \in Digits :
                               /\ BigCmp(BigMulSmall(d, c), h.r) <= 0
                               /\ BigCmp(BigMulSmall(d, c + 1), h.r) > 0>> :
                            h \in {BigDivMod(n, BigShl(d, DigitBits))}}} : TRUE

\* the integer square root of n, a digit at a time: the root of
\* n \div 4^DigitBits, then the digit that completes it
RECURSIVE BigIsqrt(_)
BigIsqrt(n) ==
    IF n = <<>> THEN <<>>
    ELSE CHOOSE root \in
            {BigAdd(low, BigOf(CHOOSE c \in Digits :
                /\ BigCmp(BigMul(BigAdd(low, BigOf(c)), BigAdd(low, BigOf(c))), n) <= 0
                /\ BigCmp(BigMul(BigAdd(low, BigOf(c + 1)),
                                 BigAdd(low, BigOf(c + 1))), n) > 0)) :
                low \in {BigShl(BigIsqrt(BigDivSmall(n, 4^DigitBits).q),
                                DigitBits)}} : TRUE

DZero == [neg |-> FALSE, m |-> <<>>, e |-> 0]

\* The double nearest to q * 2^e, or to a value just above it when `sticky'
\* (a remainder was dropped below q), for q of at least 55 bits: round to
\* nearest, ties to the even mantissa.
DRound(neg, q, sticky, e) ==
    LET k == BigBits(q) - 53
        half == 2^(k - 1)
        up(cut) == cut.r > half \/ (cut.r = half /\ (sticky \/ cut.q[1] % 2 = 1))
        mantissa(cut) == IF up(cut) THEN BigAdd(cut.q, <<1>>) ELSE cut.q
    IN  CHOOSE double \in
            {IF BigBits(m) = 54
             THEN [neg |-> neg, m |-> BigShl(<<1>>, 52), e |-> e + k + 1]
             ELSE [neg |-> neg, m |-> m, e |-> e + k] :
                m \in {mantissa(cut) : cut \in {BigDivSmall(q, 2^k)}}} : TRUE

\* the double nearest to (n / d) * 2^e, negated when neg
DoubleOf(neg, n, d, e) ==
    IF n = <<>> THEN DZero
    ELSE LET s == 55 - (BigBits(n) - BigBits(d))
         IN  CHOOSE double \in
                {DRound(neg, qr.q, qr.r # <<>>, e - s) :
                    qr \in {BigDivMod(IF s >= 0 THEN BigShl(n, s) ELSE n,
                                      IF s >= 0 THEN d ELSE BigShl(d, 0 - s))}} : TRUE

\* float(i): the ints of the program have fewer than 53 bits
DInt(i) ==
    IF i = 0 THEN DZero
    ELSE [neg |-> i < 0, m |-> BigShl(BigOf(Abs(i)), 53 - BitLen(Abs(i))),
          e |-> BitLen(Abs(i)) - 53]

\* a / b of two ints, b # 0: true division rounds the exact quotient once;
\* also the double of the decimal literal a/b
DIntDiv(a, b) == DoubleOf((a < 0) # (b < 0), BigOf(Abs(a)), BigOf(Abs(b)), 0)

DNeg(x) == IF x.m = <<>> THEN x ELSE [x EXCEPT !.neg = ~x.neg]

DAbs(x) == [x EXCEPT !.neg = FALSE]

DMul(x, y) ==
    CHOOSE product \in
        {DoubleOf(a.neg # b.neg, BigMul(a.m, b.m), <<1>>, a.e + b.e) :
            a \in {x}, b \in {y}} : TRUE

DDiv(x, y) ==
    CHOOSE quotient \in
        {DoubleOf(a.neg # b.neg, a.m, b.m, a.e - b.e) : a \in {x}, b \in {y}} : TRUE

\* the magnitude of x in units of the smaller exponent of x and y
DAligned(x, y) == BigShl(x.m, x.e - Min(x.e, y.e))

\* -1, 0 or 1 as the magnitude of x is below, equal to or above that of y
DCmpAbs(x, y) == BigCmp(DAligned(x, y), DAligned(y, x))

\* x + y: the exact sum of the two magnitudes, or the exact difference of
\* the larger and the smaller with the sign of the larger, rounded once
DAdd(x, y) ==
    CHOOSE sum \in
        {DoubleOf(IF a.neg = b.neg \/ DCmpAbs(a, b) > 0 THEN a.neg ELSE b.neg,
                  IF a.neg = b.neg THEN BigAdd(DAligned(a, b), DAligned(b, a))
                  ELSE IF DCmpAbs(a, b) > 0
                  THEN BigSub(DAligned(a, b), DAligned(b, a))
                  ELSE BigSub(DAligned(b, a), DAligned(a, b)),
                  <<1>>, Min(a.e, b.e)) : a \in {x}, b \in {y}} : TRUE

DSub(x, y) == DAdd(x, DNeg(y))

\* x < y
DLess(x, y) ==
    \E a \in {x}, b \in {y} :
        IF a.neg # b.neg THEN a.neg
        ELSE IF a.neg THEN DCmpAbs(a, b) > 0 ELSE DCmpAbs(a, b) < 0

\* the largest error of pow() of the C library, in hundredths of a unit in
\* the last place of the result
PowUlpError100 == 54

\* pow() is not correctly rounded: where the exact result lies so close to
\* the middle of two doubles that both are within the error, the library
\* of the build decides which of them it returns
PowRoundings == {"below", "above"}

\* x ** 0.5 for x >= 0, which is pow(x, 0.5): a double within the error of
\* pow() of the square root.  The root of n = x.m * 2^s has 53 bits before
\* the point; f is its floor, and f or f + 1 is returned as `rounding'
\* prefers, unless only the other one is within the error.
DPowHalf(x, rounding) ==
    IF x.m = <<>> THEN DZero
    ELSE LET s == IF x.e % 2 = 0 THEN 52 ELSE 53
             \* (f + c / 100)^2 in ten-thousandths
             square(f, c) == BigMul(BigAdd(BigMulSmall(f, 100), BigOf(c)),
                                    BigAdd(BigMulSmall(f, 100), BigOf(c)))
             \* root - f <= error, and f + 1 - root <= error
             below(n, f) ==
                 BigCmp(BigMulSmall(n, 10000), square(f, PowUlpError100)) <= 0
             above(n, f) ==
                 BigCmp(BigMulSmall(n, 10000), square(f, 100 - PowUlpError100)) >= 0
             mantissa(n, f) ==
                 IF rounding = "below"
                 THEN (IF below(n, f) THEN f ELSE BigAdd(f, <<1>>))
                 ELSE (IF above(n, f) THEN BigAdd(f, <<1>>) ELSE f)
         IN  CHOOSE root \in
                {IF BigBits(m) = 54
                 THEN [neg |-> FALSE, m |-> BigShl(<<1>>, 52),
                       e |-> (x.e - s) \div 2 + 1]
                 ELSE [neg |-> FALSE, m |-> m, e |-> (x.e - s) \div 2] :
                    m \in {mantissa(nf[1], nf[2]) :
                              nf \in {<<n, BigIsqrt(n)>> :
                                         n \in {BigShl(x.m, s)}}}} : TRUE

\* x ** 2, which is pow(x, 2.0): a double within the error of pow() of the
\* square.  The exact square x.m * x.m has 53 bits before the cut; f is its
\* floor there, and f or f + 1 is returned as `rounding' prefers, unless only
\* the other one is within the error.  A square that is a double is exact.
DPowTwo(x, rounding) ==
    IF x.m = <<>> THEN DZero
    ELSE LET \* the square is f + r / unit, in hundredths of a unit
             below(cut, unit) ==
                 BigCmp(BigMulSmall(cut.r, 100),
                        BigMulSmall(unit, PowUlpError100)) <= 0
             above(cut, unit) ==
                 BigCmp(BigMulSmall(cut.r, 100),
                        BigMulSmall(unit, 100 - PowUlpError100)) >= 0
             mantissa(cut, unit) ==
                 IF rounding = "below"
                 THEN (IF below(cut, unit) THEN cut.q ELSE BigAdd(cut.q, <<1>>))
                 ELSE (IF above(cut, unit) THEN BigAdd(cut.q, <<1>>) ELSE cut.q)
         IN  CHOOSE square \in
                {IF BigBits(mk[1]) = 54
                 THEN [neg |-> FALSE, m |-> BigShl(<<1>>, 52),
                       e |-> 2 * x.e + mk[2] + 1]
                 ELSE [neg |-> FALSE, m |-> mk[1], e |-> 2 * x.e + mk[2]] :
                    mk \in {<<mantissa(BigDivMod(sk[1], BigShl(<<1>>, sk[2])),
                                       BigShl(<<1>>, sk[2])), sk[2]>> :
                               sk \in {<<sq, BigBits(sq) - 53>> :
                                          sq \in {BigMul(x.m, x.m)}}}} : TRUE

\* round(x, 2) of a double, in hundredths: the decimal with two places
\* nearest to the exact value of x, ties to the even hundredth
DHundredths(x) ==
    LET \* the remainder r against half of the divisor
        half(r) == IF x.e >= 0 THEN 0 - 1
                   ELSE BigCmp(BigAdd(r, r), BigShl(<<1>>, 0 - x.e))
        up(qr, c) == c > 0 \/ (c = 0 /\ Limb(qr.q, 1) % 2 = 1)
        hundredths(qr) == IF up(qr, half(qr.r)) THEN BigAdd(qr.q, <<1>>) ELSE qr.q
        signed(h) == IF x.neg THEN 0 - (Limb(h, 1) + LimbBase * Limb(h, 2))
                     ELSE Limb(h, 1) + LimbBase * Limb(h, 2)
    IN  CHOOSE value \in
            {signed(h) :
                h \in {hundredths(qr) :
                    qr \in {IF x.e >= 0
                            THEN [q |-> BigShl(BigMulSmall(x.m, 100), x.e), r |-> <<>>]
                            ELSE BigDivMod(BigMulSmall(x.m, 100),
                                           BigShl(<<1>>, 0 - x.e))}}} : TRUE

\* round(d, 2) of the double d that the code holds for the exact value x:
\* off a tie the nearest hundredth of x, on a tie what the double decides
Round2Of(x, d) ==
    LET n == 100 * Abs(x.num)
        q == n \div x.den
        r == n % x.den
        h == IF 2 * r > x.den THEN q + 1 ELSE q
    IN  IF 2 * r = x.den THEN Rat(DHundredths(d), 100)
        ELSE Rat(IF x.num < 0 THEN 0 - h ELSE h, 100)

\* the except clauses of get_user_analytics_overview (lines 99-104): a
\* ValueError, or an exception of a subclass of it, is raised again as it
\* is; any other Exception is wrapped in a RuntimeError; an exception that
\* is no Exception (KeyboardInterrupt, SystemExit) passes through
OverviewExcept(exception) ==
    IF IsInstance(exception, "ValueError") THEN exception
    ELSE IF IsInstance(exception, "Exception") THEN OverviewFailure(exception)
    ELSE exception

(***************************************************************************)
(* AnalyticsService: poll detail.                                          *)
(***************************************************************************)
\* round(x, 2) of a quotient x of two ints, which the code holds as the
\* double nearest to x
Round2(x) == Round2Of(x, DIntDiv(x.num, x.den))

\* the rows (Option.text, count(Vote.id)) of the outer join grouped by option,
\* in the order `rows` of their options, collected into a dict: a later row
\* replaces an earlier row that has the same text
_get_vote_distribution(poll_id, rows) ==
    LET texts == {options[rows[i]].text : i \in DOMAIN rows}
        last(t) == CHOOSE i \in DOMAIN rows :
                      /\ options[rows[i]].text = t
                      /\ \A j \in DOMAIN rows : j > i => options[rows[j]].text # t
    IN  [t \in texts |-> Cardinality(VotesOfOption(rows[last(t)]))]

\* a variant that sums the distinct values: sum(set(vote_distribution.values()))
DistributionTotal_DistinctValues(vote_distribution) ==
    LET vals == {vote_distribution[t] : t \in DOMAIN vote_distribution}
    IN  SetSum(vals, [v \in vals |-> v])

\* sum(vote_distribution.values())
DistributionTotal(vote_distribution) ==
    SetSum(DOMAIN vote_distribution, vote_distribution)

\* a variant with the quotient inverted: poll_views / total_votes * 100
EngagementRate_ViewsPerVote(total_votes, poll_views) ==
    IF poll_views > 0 /\ total_votes > 0
    THEN Rat(poll_views * 100, total_votes) ELSE Zero

\* (total_votes / poll_views * 100) if poll_views > 0 else 0.0
EngagementRate(total_votes, poll_views) ==
    IF poll_views > 0 THEN Rat(total_votes * 100, poll_views) ELSE Zero

\* (datetime.now(UTC) - poll.created_at).days
DaysOld(created_at, t) == (t - created_at) \div MinutesPerDay

\* a variant without the min(100, ...) cap
PerformanceScore_NoCap(vote_count, poll_views, days_old) ==
    LET w == IF poll_views > 0 THEN poll_views ELSE 1
        engagement == IF poll_views > 0 THEN 50 * vote_count ELSE 0
        recency30 == Max(0, 30 - days_old)
        n == 30 * vote_count * w + 3 * engagement + 2 * recency30 * w
    IN  Round2(Rat(n, 3 * w))

\* a variant without the max(0, ...) floor of the recency factor
PerformanceScore_NoRecencyFloor(vote_count, poll_views, days_old) ==
    LET w == IF poll_views > 0 THEN poll_views ELSE 1
        engagement == IF poll_views > 0 THEN 50 * vote_count ELSE 0
        recency30 == 30 - days_old
        n == 30 * vote_count * w + 3 * engagement + 2 * recency30 * w
        score == IF n >= 300 * w THEN Rat(100, 1) ELSE Rat(n, 3 * w)
    IN  Round2(score)

\* the score before round(score, 2), as the doubles of the code:
\* engagement_rate and recency_factor are rounded quotients, each product
\* and each of the two sums is rounded again
PerformanceScoreDouble(vote_count, poll_views, days_old) ==
    LET engagement_rate == IF poll_views > 0 THEN DIntDiv(vote_count, poll_views)
                           ELSE DZero
        \* max(0, 1 - days_old / 30)
        recency_factor(recency) == IF recency.neg THEN DZero ELSE recency
        \* min(100, score)
        capped(score) == IF DLess(score, DInt(100)) THEN score ELSE DInt(100)
    IN  capped(DAdd(DAdd(DInt(vote_count * 10), DMul(engagement_rate, DInt(50))),
                    DMul(recency_factor(DSub(DInt(1), DIntDiv(days_old, 30))),
                         DInt(20))))

\* min(100, vote_count*10 + engagement_rate*50 + recency_factor*20), rounded
PerformanceScore(vote_count, poll_views, days_old) ==
    LET w == IF poll_views > 0 THEN poll_views ELSE 1
        engagement == IF poll_views > 0 THEN 50 * vote_count ELSE 0
        \* recency_factor = max(0, 1 - days_old / 30), times 30
        recency30 == Max(0, 30 - days_old)
        \* the sum over the common denominator 3 * w
        n == 30 * vote_count * w + 3 * engagement + 2 * recency30 * w
        score == IF n >= 300 * w THEN Rat(100, 1) ELSE Rat(n, 3 * w)
    IN  Round2Of(score, PerformanceScoreDouble(vote_count, poll_views, days_old))

_calculate_poll_performance_score(poll_id) ==
    IF poll_id \notin PollIds THEN Zero
    ELSE PerformanceScore(VoteCount(poll_id), ViewCount(poll_id),
                          DaysOld(polls[poll_id].created_at, now))

\* a variant that guards with hours_since_creation >= 1
VoteVelocity_ZeroUnderOneHour(total_votes, created_at, t) ==
    IF t - created_at >= MinutesPerHour
    THEN Rat(total_votes * MinutesPerHour, t - created_at)
    ELSE Zero

\* total_votes / hours_since_creation if hours_since_creation > 0 else 0.0
VoteVelocity(total_votes, created_at, t) ==
    IF t - created_at > 0
    THEN Rat(total_votes * MinutesPerHour, t - created_at)
    ELSE Zero

\* the created_at of the most recent vote on the poll, or None
_get_peak_voting_time(poll_id) ==
    IF VotesOfPoll(poll_id) = {} THEN None
    ELSE Some(CHOOSE t \in {votes[v].created_at : v \in VotesOfPoll(poll_id)} :
                \A v \in VotesOfPoll(poll_id) : votes[v].created_at <= t)

get_poll_analytics(poll_id, rows) ==
    LET poll == polls[poll_id]
        vote_distribution == _get_vote_distribution(poll_id, rows)
        total_votes == DistributionTotal(vote_distribution)
    IN  [op |-> "get_poll_analytics",
         status |-> "ok",
         poll_id |-> poll_id,
         total_votes |-> total_votes,
         engagement_rate |-> EngagementRate(total_votes, ViewCount(poll_id)),
         vote_distribution |-> vote_distribution,
         performance_score |-> _calculate_poll_performance_score(poll_id),
         created_at |-> poll.created_at,
         peak_voting_time |-> _get_peak_voting_time(poll_id),
         total_views |-> ViewCount(poll_id),
         unique_voters |-> Cardinality({votes[v].user_id : v \in VotesOfPoll(poll_id)}),
         vote_velocity |-> VoteVelocity(total_votes, poll.created_at, now)]

\* HTTPException(404, "Poll not found") and HTTPException(403, "Access denied")
\* of verify_poll_ownership
OwnershipFailure(poll_id, current_user) ==
    IF poll_id \notin PollIds THEN 404
    ELSE IF polls[poll_id].owner_id # current_user THEN 403
    ELSE 200

\* the dict built from the PollAnalytics of the poll: the age is the
\* difference of poll_analytics.created_at and poll.created_at, in hours
engagement_details(poll, poll_analytics) ==
    LET total_votes == poll_analytics.total_votes
        total_views == poll_analytics.total_views
        conversion_rate == IF total_views > 0 THEN Rat(total_votes * 100, total_views)
                           ELSE Zero
        age_minutes == poll_analytics.created_at - poll.created_at
        poll_age_hours == Rat(age_minutes, MinutesPerHour)
        engagement_velocity ==
            IF age_minutes > 0
            THEN Rat((total_votes + total_views) * MinutesPerHour, age_minutes)
            ELSE Zero
    IN  [op |-> "get_poll_engagement_details",
         status |-> 200,
         poll_id |-> poll_analytics.poll_id,
         total_votes |-> total_votes,
         total_views |-> total_views,
         unique_voters |-> poll_analytics.unique_voters,
         engagement_rate |-> poll_analytics.engagement_rate,
         \* total_votes / total_views * 100: a rounded quotient, then a
         \* rounded product
         conversion_rate |->
             IF total_views > 0
             THEN Round2Of(conversion_rate,
                           DMul(DIntDiv(total_votes, total_views), DInt(100)))
             ELSE Zero,
         \* (total_votes + total_views) / poll_age_hours, the quotient of an
         \* int by the rounded age
         engagement_velocity |->
             IF age_minutes > 0
             THEN Round2Of(engagement_velocity,
                           DDiv(DInt(total_votes + total_views),
                                DIntDiv(age_minutes, MinutesPerHour)))
             ELSE Zero,
         vote_velocity |-> poll_analytics.vote_velocity,
         performance_score |-> poll_analytics.performance_score,
         poll_age_hours |-> Round2(poll_age_hours),
         peak_voting_time |-> poll_analytics.peak_voting_time,
         created_at |-> poll_analytics.created_at,
         vote_distribution |-> poll_analytics.vote_distribution]

(***************************************************************************)
(* get_poll_analytics query by query.  The call opens no transaction and   *)
(* takes no lock: it sends six queries to the store and reads the clock    *)
(* twice, and other requests may write between two of these steps.  calc   *)
(* holds the locals of the call in progress and the query it sends next.   *)
(***************************************************************************)
NoCall == NoResult

InPollAnalytics(state) == calc.op = "get_poll_analytics" /\ calc.state = state

\* lines 119-121: the lookup of the poll; a poll that does not exist raises
\* ValueError.  poll is the row the lookup answers with; caller is None for
\* a call of the service and holds the poll of verify_poll_ownership for a
\* call from the engagement route.
PollAnalyticsQueryPoll(poll_id, caller, poll) ==
    IF poll_id \notin PollIds
    THEN /\ result' = [op |-> "get_poll_analytics", status |-> PollNotFound.type,
                       message |-> PollNotFound.message, poll_id |-> poll_id]
         /\ calc' = NoCall
    ELSE /\ result' = result
         /\ calc' = [op |-> "get_poll_analytics", state |-> "vote_distribution",
                     caller |-> caller, poll_id |-> poll_id, poll |-> poll]

\* the entry of a call of the service
GetPollAnalytics(poll_id) ==
    /\ calc = NoCall
    /\ PollAnalyticsQueryPoll(poll_id, None, polls[poll_id])
    /\ UNCHANGED <<polls, options, votes, now>>

\* lines 124-129: the query of _get_vote_distribution, total_votes and the
\* engagement rate over the views the poll was loaded with
PollAnalyticsQueryDistribution ==
    /\ InPollAnalytics("vote_distribution")
    /\ \E rows \in RowOrders(OptionsOf(calc.poll_id)) :
          LET vote_distribution == _get_vote_distribution(calc.poll_id, rows)
              total_votes == DistributionTotal(vote_distribution)
          IN  calc' = [calc EXCEPT !.state = "score_poll"] @@
                      [vote_distribution |-> vote_distribution,
                       total_votes |-> total_votes,
                       engagement_rate |->
                           EngagementRate(total_votes, calc.poll.view_count)]
    /\ UNCHANGED <<polls, options, votes, now, result>>

\* lines 132 and 347-349: _calculate_poll_performance_score looks the poll up
\* again.  A session with an identity map hands back the object of the first
\* lookup with the views it was loaded with, a session without one the row
\* as it is now; the session is configured outside this package.
PollAnalyticsQueryScorePoll ==
    /\ InPollAnalytics("score_poll")
    /\ \E score_poll \in {calc.poll, polls[calc.poll_id]} :
          calc' = [calc EXCEPT !.state = "score_votes"] @@
                  [score_views |-> score_poll.view_count]
    /\ UNCHANGED <<polls, options, votes, now, result>>

\* lines 352-355: the count of the votes of the poll
PollAnalyticsQueryVoteCount ==
    /\ InPollAnalytics("score_votes")
    /\ calc' = [calc EXCEPT !.state = "score_clock"] @@
               [vote_count |-> VoteCount(calc.poll_id)]
    /\ UNCHANGED <<polls, options, votes, now, result>>

\* lines 357-371: the clock is read for days_old and the score is computed
PollAnalyticsReadScoreClock ==
    /\ InPollAnalytics("score_clock")
    /\ calc' = [calc EXCEPT !.state = "unique_voters"] @@
               [performance_score |->
                    PerformanceScore(calc.vote_count, calc.score_views,
                                     DaysOld(calc.poll.created_at, now))]
    /\ UNCHANGED <<polls, options, votes, now, result>>

\* lines 135-138: the count of the distinct voters of the poll
PollAnalyticsQueryUniqueVoters ==
    /\ InPollAnalytics("unique_voters")
    /\ calc' = [calc EXCEPT !.state = "velocity_clock"] @@
               [unique_voters |->
                    Cardinality({votes[v].user_id : v \in VotesOfPoll(calc.poll_id)})]
    /\ UNCHANGED <<polls, options, votes, now, result>>

\* lines 141-142: the clock is read again for hours_since_creation
PollAnalyticsReadVelocityClock ==
    /\ InPollAnalytics("velocity_clock")
    /\ calc' = [calc EXCEPT !.state = "peak_voting_time"] @@
               [vote_velocity |->
                    VoteVelocity(calc.total_votes, calc.poll.created_at, now)]
    /\ UNCHANGED <<polls, options, votes, now, result>>

\* lines 147-159: the PollAnalytics built from the locals of the call
PollAnalyticsOfCall(peak_voting_time) ==
    [op |-> "get_poll_analytics",
     status |-> "ok",
     poll_id |-> calc.poll_id,
     total_votes |-> calc.total_votes,
     engagement_rate |-> calc.engagement_rate,
     vote_distribution |-> calc.vote_distribution,
     performance_score |-> calc.performance_score,
     created_at |-> calc.poll.created_at,
     peak_voting_time |-> peak_voting_time,
     total_views |-> calc.poll.view_count,
     unique_voters |-> calc.unique_voters,
     vote_velocity |-> calc.vote_velocity]

\* lines 145-159: the query of _get_peak_voting_time and the return; the
\* engagement route goes on with the PollAnalytics (routes.py, lines 203-236)
PollAnalyticsQueryPeak ==
    /\ InPollAnalytics("peak_voting_time")
    /\ LET poll_analytics == PollAnalyticsOfCall(_get_peak_voting_time(calc.poll_id))
       IN  result' = IF calc.caller = None THEN poll_analytics
                     ELSE engagement_details(calc.caller[1], poll_analytics)
    /\ calc' = NoCall
    /\ UNCHANGED <<polls, options, votes, now>>

\* the steps of a call in progress
PollAnalyticsStep ==
    \/ PollAnalyticsQueryDistribution
    \/ PollAnalyticsQueryScorePoll
    \/ PollAnalyticsQueryVoteCount
    \/ PollAnalyticsReadScoreClock
    \/ PollAnalyticsQueryUniqueVoters
    \/ PollAnalyticsReadVelocityClock
    \/ PollAnalyticsQueryPeak

(***************************************************************************)
(* AnalyticsService: voting trends.                                        *)
(***************************************************************************)
\* func.date(ts): the calendar day, as the number of the day since the epoch;
\* strftime('%Y-%m-%d') of it orders as the day numbers do
DateOf(t) == t \div MinutesPerDay

\* func.extract('hour', ts)
HourOf(t) == (t % MinutesPerDay) \div MinutesPerHour

\* a variant without the owner filter: every poll of the store
PollsOwnedBy_AnyOwner(user_id) == PollIds

PollsOwnedBy(user_id) == {p \in PollIds : polls[p].owner_id = user_id}

\* Vote JOIN Option JOIN Poll WHERE Poll.owner_id = user_id
VotesOnPollsOf(user_id) ==
    {v \in VoteIds : polls[options[votes[v].option_id].poll_id].owner_id = user_id}

\* ... AND Vote.created_at >= start_date AND Vote.created_at <= end_date
VotesInWindow(user_id, start_date, end_date) ==
    {v \in VotesOnPollsOf(user_id) :
        votes[v].created_at >= start_date /\ votes[v].created_at <= end_date}

\* the dates that have a row in the query grouped by func.date(Vote.created_at)
VoteDates(user_id, start_date, end_date) ==
    {DateOf(votes[v].created_at) : v \in VotesInWindow(user_id, start_date, end_date)}

\* the grouped rows, in the order `rows` in which the store returns their dates
_get_daily_vote_counts(user_id, start_date, end_date, rows) ==
    LET onDate(d) == {v \in VotesInWindow(user_id, start_date, end_date) :
                        DateOf(votes[v].created_at) = d}
    IN  [i \in DOMAIN rows |->
            [date |-> rows[i],
             vote_count |-> Cardinality(onDate(rows[i])),
             unique_voters |-> Cardinality({votes[v].user_id : v \in onDate(rows[i])})]]

\* the comparisons of _calculate_engagement_trend as the code makes them,
\* for n >= 2 counts: both averages are rounded quotients, 1.1 and 0.9 are
\* the doubles next to them and each product is rounded
EngagementTrendDouble(counts) ==
    LET n == Len(counts)
        h == n \div 2
        trend(first_half_avg, second_half_avg) ==
            IF DLess(DMul(first_half_avg, DIntDiv(11, 10)), second_half_avg)
            THEN "increasing"
            ELSE IF DLess(second_half_avg, DMul(first_half_avg, DIntDiv(9, 10)))
            THEN "decreasing"
            ELSE "stable"
    IN  trend(DIntDiv(SeqSum(SubSeq(counts, 1, h)), h),
              DIntDiv(SeqSum(SubSeq(counts, h + 1, n)), n - h))

\* the trend of a list of daily vote counts: a series exactly on one of the
\* two thresholds is decided by the doubles
EngagementTrend(counts) ==
    LET n == Len(counts)
        h == n \div 2
        first == SeqSum(SubSeq(counts, 1, h))
        second == SeqSum(SubSeq(counts, h + 1, n))
    IN  IF n < 2 THEN "stable"
        ELSE IF \/ 10 * second * h = 11 * first * (n - h)
                \/ 10 * second * h = 9 * first * (n - h)
        THEN EngagementTrendDouble(counts)
        \* second / (n - h) > first / h * 1.1
        ELSE IF 10 * second * h > 11 * first * (n - h) THEN "increasing"
        \* second / (n - h) < first / h * 0.9
        ELSE IF 10 * second * h < 9 * first * (n - h) THEN "decreasing"
        ELSE "stable"

_calculate_engagement_trend(daily_votes) ==
    EngagementTrend([i \in DOMAIN daily_votes |-> daily_votes[i].vote_count])

\* max(daily_votes, key=vote_count).date: the first entry that has the largest
\* vote_count, or None for an empty list
PeakDay(daily_votes) ==
    IF daily_votes = <<>> THEN None
    ELSE LET best == CHOOSE i \in DOMAIN daily_votes :
                        /\ \A j \in DOMAIN daily_votes :
                              daily_votes[j].vote_count <= daily_votes[i].vote_count
                        /\ \A j \in DOMAIN daily_votes :
                              j < i => daily_votes[j].vote_count < daily_votes[i].vote_count
         IN  Some(daily_votes[best].date)

HourCount(user_id, start_date, end_date, h) ==
    Cardinality({v \in VotesInWindow(user_id, start_date, end_date) :
                    HourOf(votes[v].created_at) = h})

\* the orders ORDER BY vote_count DESC allows for the rows grouped by hour
HourOrders(user_id, start_date, end_date) ==
    LET hours == {HourOf(votes[v].created_at) :
                    v \in VotesInWindow(user_id, start_date, end_date)}
    IN  {r \in RowOrders(hours) :
            \A i, j \in DOMAIN r :
                i < j => HourCount(user_id, start_date, end_date, r[i])
                         >= HourCount(user_id, start_date, end_date, r[j])}

\* the first three hours of the ordered rows; "HH:00" is written as HH
_get_popular_voting_times(hour_rows) ==
    SubSeq(hour_rows, 1, Min(3, Len(hour_rows)))

\* lines 179-203: the VotingTrends built from the answers of the two queries
VotingTrendsOf(user_id, days, daily_votes, popular_times) ==
    LET total_votes == SeqSum([i \in DOMAIN daily_votes |-> daily_votes[i].vote_count])
    IN  [op |-> "get_voting_trends",
         status |-> "ok",
         user_id |-> user_id,
         days |-> days,
         timeframe |-> IF days # 7 THEN <<days, "days">> ELSE <<"week">>,
         daily_votes |-> daily_votes,
         popular_times |-> popular_times,
         engagement_trend |-> _calculate_engagement_trend(daily_votes),
         total_votes_period |-> total_votes,
         average_daily_votes |-> IF days > 0 THEN Rat(total_votes, days) ELSE Zero,
         peak_day |-> PeakDay(daily_votes)]

\* what a call returns when no request writes to the store while it runs
get_voting_trends(user_id, days, rows, hour_rows) ==
    LET end_date == now
        start_date == now - Days(days)
    IN  VotingTrendsOf(user_id, days,
                       _get_daily_vote_counts(user_id, start_date, end_date, rows),
                       _get_popular_voting_times(hour_rows))

\* lines 172-173: the call reads the clock once, for end_date and start_date
GetVotingTrends(user_id, days) ==
    /\ calc = NoCall
    /\ calc' = [op |-> "get_voting_trends", state |-> "daily_votes",
                user_id |-> user_id, days |-> days,
                end_date |-> now, start_date |-> now - Days(days)]
    /\ result' = result
    /\ UNCHANGED <<polls, options, votes, now>>

InVotingTrends(state) == calc.op = "get_voting_trends" /\ calc.state = state

\* line 176: the query of _get_daily_vote_counts
VotingTrendsQueryDailyVotes ==
    /\ InVotingTrends("daily_votes")
    /\ \E rows \in RowOrders(VoteDates(calc.user_id, calc.start_date, calc.end_date)) :
          calc' = [calc EXCEPT !.state = "popular_times"] @@
                  [daily_votes |->
                       _get_daily_vote_counts(calc.user_id, calc.start_date,
                                              calc.end_date, rows)]
    /\ UNCHANGED <<polls, options, votes, now, result>>

\* lines 191-203: the query of _get_popular_voting_times and the return
VotingTrendsQueryPopularTimes ==
    /\ InVotingTrends("popular_times")
    /\ \E hour_rows \in HourOrders(calc.user_id, calc.start_date, calc.end_date) :
          result' = VotingTrendsOf(calc.user_id, calc.days, calc.daily_votes,
                                   _get_popular_voting_times(hour_rows))
    /\ calc' = NoCall
    /\ UNCHANGED <<polls, options, votes, now>>

\* the steps of a call in progress
VotingTrendsStep ==
    \/ VotingTrendsQueryDailyVotes
    \/ VotingTrendsQueryPopularTimes

(***************************************************************************)
(* AnalyticsService: popular polls.                                        *)
(***************************************************************************)
Timeframes == {"day", "week", "month", "year", "all"}

\* datetime.min (1 January of year 1), counted from the epoch of the model
\* (1 January 2025): 739251 days earlier
DatetimeMin == 0 - 739251 * MinutesPerDay

_calculate_cutoff_date(timeframe) ==
    CASE timeframe = "day" -> now - Days(1)
      [] timeframe = "week" -> now - Days(7)
      [] timeframe = "month" -> now - Days(30)
      [] timeframe = "year" -> now - Days(365)
      [] timeframe = "all" -> DatetimeMin

\* what a call that raises ends in: the exception, beside the arguments
PopularPollsRaised(limit, timeframe, exception) ==
    [op |-> "get_popular_polls",
     status |-> exception.type,
     message |-> exception.message,
     limit |-> limit,
     timeframe |-> timeframe]

\* Line 216 raises ValueError for a timeframe that _calculate_cutoff_date
\* does not know.  The query of lines 219-228 selects Poll and
\* count(Vote.id), so its FROM list holds polls and votes, and
\* .join(models.Option) names no ON clause: both tables are linked with
\* options by a foreign key, the left side of the join is ambiguous and the
\* ORM raises InvalidRequestError before a row is read.  The service does
\* not catch it, and the loop of lines 230-250 never runs.
get_popular_polls(limit, timeframe) ==
    IF timeframe \notin Timeframes
    THEN PopularPollsRaised(limit, timeframe, InvalidTimeframe)
    ELSE PopularPollsRaised(limit, timeframe,
                            JoinError({"polls", "votes"}, "options")[1])

\* a call: neither path reads the store, so the call is one step
GetPopularPolls(limit, timeframe) ==
    /\ calc = NoCall
    /\ result' = get_popular_polls(limit, timeframe)
    /\ UNCHANGED <<polls, options, votes, now, calc>>

(***************************************************************************)
(* AnalyticsService: user overview.                                        *)
(***************************************************************************)
\* mean of vote_count / poll_views * 100 over the polls that have views: views
\* are the view counts the polls were loaded with, vote_counts the answers of
\* the count queries of the loop
_calculate_average_engagement_rate(views, vote_counts) ==
    LET valid == {i \in DOMAIN views : views[i] > 0}
        \* the sum of the rates over the common denominator: product of the views
        den(S) == LET RECURSIVE prod(_)
                      prod(T) == IF T = {} THEN 1
                                 ELSE LET i == CHOOSE k \in T : TRUE
                                      IN  views[i] * prod(T \ {i})
                  IN  prod(S)
        num(S) == LET RECURSIVE sum(_)
                      sum(T) == IF T = {} THEN 0
                                ELSE LET i == CHOOSE k \in T : TRUE
                                     IN  vote_counts[i] * 100 * den(S \ {i})
                                         + sum(T \ {i})
                  IN  sum(S)
    IN  IF valid = {} THEN Zero
        ELSE Rat(num(valid), den(valid) * Cardinality(valid))

\* the loop over user_polls: a poll replaces the best one so far only when its
\* vote count, the answer vote_counts[i] of its count query, is greater;
\* max_votes starts at 0
_get_most_popular_poll(user_polls, vote_counts) ==
    LET RECURSIVE scan(_, _, _)
        scan(i, max_votes, most_popular) ==
            IF i > Len(user_polls) THEN most_popular
            ELSE IF vote_counts[i] > max_votes
                 THEN scan(i + 1, vote_counts[i], Some(user_polls[i]))
                 ELSE scan(i + 1, max_votes, most_popular)
    IN  scan(1, 0, None)

\* Lines 318-327: the query selects Vote.created_at, Poll.id and
\* Poll.question, so its FROM list holds votes and polls, and
\* .join(models.Option) names no ON clause: both tables are linked with
\* options by a foreign key, the left side of the join is ambiguous and the
\* ORM raises InvalidRequestError before a row is read, whatever user_id and
\* limit are.  The value is that exception; the loop of lines 329-339 never
\* runs.
_get_recent_activity(user_id, limit) == JoinError({"votes", "polls"}, "options")[1]

RecentActivityLimit == 10

\* lines 50-58 and 89-97: the AnalyticsOverview built from the locals of the
\* call
OverviewOf(user_id, user_polls, total_votes, avg_engagement, most_popular, recent_activity, polls_this_month, total_views) ==
    [op |-> "get_user_analytics_overview",
     status |-> "ok",
     user_id |-> user_id,
     user_polls |-> user_polls,
     total_polls |-> Len(user_polls),
     total_votes_received |-> total_votes,
     average_engagement_rate |-> avg_engagement,
     most_popular_poll |-> most_popular,
     recent_activity |-> recent_activity,
     polls_created_this_month |-> polls_this_month,
     total_poll_views |-> total_views]

\* what a call that raises ends in: the exception that leaves the except
\* clauses, beside the argument
OverviewRaised(user_id, exception) ==
    [op |-> "get_user_analytics_overview",
     status |-> exception.type,
     message |-> exception.message,
     user_id |-> user_id]

\* What a call ends in, for the rows user_polls of the polls of the user.
\* A user_id <= 0 raises ValueError (line 40); a user without polls gets the
\* all-zero overview (lines 48-58); for a user with polls the queries of
\* lines 61-74 are answered and line 77 raises in _get_recent_activity, so
\* that lines 79-97 never run and no overview is built.
get_user_analytics_overview(user_id, user_polls) ==
    IF user_id <= 0 THEN OverviewRaised(user_id, OverviewExcept(InvalidUserId))
    ELSE IF Len(user_polls) = 0
    THEN OverviewOf(user_id, user_polls, 0, Zero, None, <<>>, 0, 0)
    ELSE OverviewRaised(user_id,
             OverviewExcept(_get_recent_activity(user_id, RecentActivityLimit)))

(***************************************************************************)
(* get_user_analytics_overview query by query.  The call holds no lock and *)
(* opens no transaction, so other requests may write to the store between  *)
(* two of its queries; calc holds the locals of the call in progress and   *)
(* the query it sends next.                                                *)
(***************************************************************************)
\* the next poll after index i that was loaded with views, or 0: the polls
\* the loop of _calculate_average_engagement_rate sends a query for
NextViewed(views, i) ==
    IF \E k \in DOMAIN views : k > i /\ views[k] > 0
    THEN CHOOSE k \in DOMAIN views :
            /\ k > i /\ views[k] > 0
            /\ \A j \in DOMAIN views : (j > i /\ views[j] > 0) => k <= j
    ELSE 0

\* lines 39-58: the argument check, the query of the polls of the user and
\* the early return for a user without polls; the view counts are those the
\* polls were loaded with
GetUserAnalyticsOverview(user_id) ==
    /\ calc = NoCall
    /\ \E user_polls \in RowOrders(PollsOwnedBy(user_id)) :
          IF user_id <= 0 \/ Len(user_polls) = 0
          THEN /\ result' = get_user_analytics_overview(user_id, user_polls)
               /\ calc' = NoCall
          ELSE /\ result' = result
               /\ calc' = [op |-> "get_user_analytics_overview",
                           state |-> "total_votes",
                           user_id |-> user_id,
                           user_polls |-> user_polls,
                           views |-> [i \in DOMAIN user_polls |->
                                         ViewCount(user_polls[i])]]
    /\ UNCHANGED <<polls, options, votes, now>>

InOverview(state) ==
    calc.op = "get_user_analytics_overview" /\ calc.state = state

\* lines 61-68: the count of the votes on the polls of the user, and the sum
\* of the view counts the polls were loaded with; the loop of
\* _calculate_average_engagement_rate follows, with a query for each poll
\* that has views
OverviewQueryTotalVotes ==
    /\ InOverview("total_votes")
    /\ calc' = [calc EXCEPT !.state = IF NextViewed(calc.views, 0) = 0
                                      THEN "popular_votes"
                                      ELSE "engagement_votes"] @@
               [total_votes |-> Cardinality(VotesOnPollsOf(calc.user_id)),
                total_views |-> SeqSum(calc.views),
                index |-> NextViewed(calc.views, 0),
                engagement_votes |-> [i \in DOMAIN calc.user_polls |-> 0],
                avg_engagement |-> Zero,
                popular_votes |-> <<>>,
                most_popular |-> None]
    /\ UNCHANGED <<polls, options, votes, now, result>>

\* lines 277-286: the count of the votes of the next poll that has views;
\* after the last one the average is taken
OverviewQueryEngagementVotes ==
    /\ InOverview("engagement_votes")
    /\ LET engagement_votes ==
               [calc.engagement_votes EXCEPT
                   ![calc.index] = VoteCount(calc.user_polls[calc.index])]
           index == NextViewed(calc.views, calc.index)
       IN  calc' = [calc EXCEPT
                       !.engagement_votes = engagement_votes,
                       !.index = index,
                       !.avg_engagement =
                           IF index = 0
                           THEN _calculate_average_engagement_rate(calc.views,
                                                                   engagement_votes)
                           ELSE @,
                       !.state = IF index = 0 THEN "popular_votes"
                                 ELSE "engagement_votes"]
    /\ UNCHANGED <<polls, options, votes, now, result>>

\* lines 297-313: the count of the votes of the next poll, for the most
\* popular poll; after the last one the poll is chosen
OverviewQueryPopularVotes ==
    /\ InOverview("popular_votes")
    /\ LET popular_votes ==
               Append(calc.popular_votes,
                      VoteCount(calc.user_polls[Len(calc.popular_votes) + 1]))
           done == Len(popular_votes) = Len(calc.user_polls)
       IN  calc' = [calc EXCEPT
                       !.popular_votes = popular_votes,
                       !.most_popular =
                           IF done
                           THEN _get_most_popular_poll(calc.user_polls, popular_votes)
                           ELSE @,
                       !.state = IF done THEN "recent_activity"
                                 ELSE "popular_votes"]
    /\ UNCHANGED <<polls, options, votes, now, result>>

\* line 77: _get_recent_activity raises, the except clause of line 102
\* wraps the exception and the call ends; the locals are dropped
OverviewQueryRecentActivity ==
    /\ InOverview("recent_activity")
    /\ result' = get_user_analytics_overview(calc.user_id, calc.user_polls)
    /\ calc' = NoCall
    /\ UNCHANGED <<polls, options, votes, now>>

\* the steps of a call in progress
OverviewStep ==
    \/ OverviewQueryTotalVotes
    \/ OverviewQueryEngagementVotes
    \/ OverviewQueryPopularVotes
    \/ OverviewQueryRecentActivity

(***************************************************************************)
(* AnalyticsCalculator and DataAggregator: pure functions of their inputs. *)
(***************************************************************************)
RatAdd(a, b) == Rat(a.num * b.den + b.num * a.den, a.den * b.den)

RatMul(a, b) == Rat(a.num * b.num, a.den * b.den)

\* a variant without the min(1.2, ...) cap
ComplexityFactor_NoCap(option_count) == Rat(10 + (option_count - 2), 10)

\* min(1.2, 1 + (option_count - 2) * 0.1)
ComplexityFactor(option_count) == Rat(Min(12, 10 + (option_count - 2)), 10)

\* a variant without the early return for views == 0: base_engagement is 0
\* there and the bonuses still count
calculate_engagement_score_NoEarlyReturn(votes_, views, unique_voters, poll_age_hours, option_count) ==
    LET base_engagement == IF views = 0 THEN Zero ELSE Rat(votes_ * 100, views)
        diversity_bonus == IF votes_ > 0 THEN Rat(unique_voters * 10, votes_) ELSE Zero
        recency_bonus == Rat(Max(0, 240 - poll_age_hours), 24)
        complexity_factor == ComplexityFactor(option_count)
        score == RatMul(RatAdd(RatAdd(base_engagement, diversity_bonus),
                               recency_bonus), complexity_factor)
        hundred == Rat(100, 1)
    IN  [value |-> IF RatLE(hundred, score) THEN hundred
                   ELSE IF RatLE(score, Zero) THEN Zero ELSE score,
         complexity_factor |-> Some(complexity_factor)]

\* the score, and the complexity factor that was applied to it (None when
\* the function returns before computing one)
calculate_engagement_score(votes_, views, unique_voters, poll_age_hours, option_count) ==
    IF views = 0 THEN [value |-> Zero, complexity_factor |-> None]
    ELSE LET base_engagement == Rat(votes_ * 100, views)
             diversity_bonus == IF votes_ > 0 THEN Rat(unique_voters * 10, votes_) ELSE Zero
             recency_bonus == Rat(Max(0, 240 - poll_age_hours), 24)
             complexity_factor == ComplexityFactor(option_count)
             score == RatMul(RatAdd(RatAdd(base_engagement, diversity_bonus),
                                    recency_bonus), complexity_factor)
             hundred == Rat(100, 1)
         IN  [value |-> IF RatLE(hundred, score) THEN hundred
                        ELSE IF RatLE(score, Zero) THEN Zero ELSE score,
              complexity_factor |-> Some(complexity_factor)]

\* a variant that counts every tie as below the value
calculate_percentile_rank_TiesBelow(value, dataset) ==
    IF dataset = <<>> THEN Rat(50, 1)
    ELSE LET count_below == Cardinality({i \in DOMAIN dataset : dataset[i] < value})
             count_equal == Cardinality({i \in DOMAIN dataset : dataset[i] = value})
         IN  Round2(Rat((count_below + count_equal) * 100, Len(dataset)))

\* round((count_below + count_equal / 2) / len(sorted_data) * 100, 2), and
\* 50.0 for an empty dataset
calculate_percentile_rank(value, dataset) ==
    IF dataset = <<>> THEN Rat(50, 1)
    ELSE LET count_below == Cardinality({i \in DOMAIN dataset : dataset[i] < value})
             count_equal == Cardinality({i \in DOMAIN dataset : dataset[i] = value})
             \* count_below + count_equal / 2 is a double without rounding;
             \* the quotient by the length and the product by 100 are rounded
             percentile == DMul(DDiv(DIntDiv(2 * count_below + count_equal, 2),
                                     DInt(Len(dataset))),
                                DInt(100))
         IN  Round2Of(Rat((2 * count_below + count_equal) * 100, 2 * Len(dataset)),
                      percentile)

\* a variant whose loop stops one window early: range(len(values) - window_size)
calculate_moving_average_DropsLastWindow(values, window_size) ==
    IF Len(values) < window_size THEN [status |-> "ok", value |-> values]
    ELSE IF window_size = 0 THEN [status |-> "ZeroDivisionError", value |-> <<>>]
    ELSE [status |-> "ok",
          value |-> [i \in 1..(Len(values) - window_size) |->
                        Rat(SeqSum(SubSeq(values, i, i + window_size - 1)),
                            window_size)]]

\* The list itself when it is shorter than the window, otherwise the mean of
\* every window values[i:i + window_size]; for window_size = 0 the first
\* window is empty and sum(window) / window_size raises ZeroDivisionError.
calculate_moving_average(values, window_size) ==
    IF Len(values) < window_size THEN [status |-> "ok", value |-> values]
    ELSE IF window_size = 0 THEN [status |-> "ZeroDivisionError", value |-> <<>>]
    ELSE [status |-> "ok",
          value |-> [i \in 1..(Len(values) - window_size + 1) |->
                        Rat(SeqSum(SubSeq(values, i, i + window_size - 1)),
                            window_size)]]

\* values[:window_size] and values[-window_size:] for window_size >= 0
\* (values[-0:] is the whole list)
FirstWindow(values, window_size) ==
    SubSeq(values, 1, Min(window_size, Len(values)))

LastWindow(values, window_size) ==
    IF window_size = 0 THEN values
    ELSE SubSeq(values, Max(1, Len(values) - window_size + 1), Len(values))

\* the comparisons of calculate_trend_direction as the code makes them, for
\* window sums f > 0 and l: the two means are rounded quotients, their
\* difference and the change ratio are rounded, 0.1 is the double next to it
TrendDirectionDouble(f, l, window_size) ==
    LET change_ratio(first_window, last_window) ==
            DDiv(DSub(last_window, first_window), first_window)
        direction(ratio, threshold) ==
            IF DLess(threshold, ratio) THEN "increasing"
            ELSE IF DLess(ratio, DNeg(threshold)) THEN "decreasing"
            ELSE "stable"
    IN  direction(change_ratio(DIntDiv(f, window_size), DIntDiv(l, window_size)),
                  DIntDiv(1, 10))

\* The trend of a series from the means of its first and last window_size
\* values, for window_size >= 0; dividing by a window_size of 0 raises
\* ZeroDivisionError.  With the window sums f and l the change ratio
\* (l/w - f/w) / (f/w) is compared with 0.1 and -0.1 as 10 * (l - f) against
\* f and -f; a ratio exactly on a threshold is decided by the doubles.
calculate_trend_direction(values, window_size) ==
    LET f == SeqSum(FirstWindow(values, window_size))
        l == SeqSum(LastWindow(values, window_size))
    IN  IF Len(values) < window_size * 2 THEN [status |-> "ok", value |-> "stable"]
        ELSE IF window_size = 0 THEN [status |-> "ZeroDivisionError", value |-> "none"]
        ELSE IF f > 0 /\ (10 * (l - f) = f \/ 10 * (l - f) = 0 - f)
        THEN [status |-> "ok", value |-> TrendDirectionDouble(f, l, window_size)]
        ELSE IF f > 0 /\ 10 * (l - f) > f THEN [status |-> "ok", value |-> "increasing"]
        ELSE IF f > 0 /\ 10 * (l - f) < 0 - f THEN [status |-> "ok", value |-> "decreasing"]
        ELSE [status |-> "ok", value |-> "stable"]

\* sum() of a non-empty list of doubles adds them to the int 0 from the
\* left.  Up to Python 3.11 every sum is rounded and nothing else is kept;
\* from Python 3.12 on the rounding errors are collected in a compensation
\* term (Neumaier) that is added at the end.  The program runs on both.
Summations == {"sequential", "compensated"}

RECURSIVE DSumSequential(_, _)
DSumSequential(xs, k) ==
    IF k = 1 THEN xs[1] ELSE DAdd(DSumSequential(xs, k - 1), xs[k])

RECURSIVE DSumCompensated(_, _)
DSumCompensated(xs, k) ==
    IF k = 1 THEN [f |-> xs[1], c |-> DZero]
    ELSE CHOOSE total \in
            {[f |-> pt[2],
              \* what the rounded sum t dropped: (larger - t) + smaller, by
              \* magnitude
              c |-> DAdd(pt[1].c,
                         DAdd(DSub(IF DLess(DAbs(pt[1].f), DAbs(xs[k]))
                                   THEN xs[k] ELSE pt[1].f, pt[2]),
                              IF DLess(DAbs(pt[1].f), DAbs(xs[k]))
                              THEN pt[1].f ELSE xs[k]))] :
                pt \in {<<p, DAdd(p.f, xs[k])>> :
                            p \in {DSumCompensated(xs, k - 1)}}} : TRUE

DSum(xs, summation) ==
    IF summation = "sequential" THEN DSumSequential(xs, Len(xs))
    ELSE CHOOSE sum \in
            {IF total.c = DZero THEN total.f ELSE DAdd(total.f, total.c) :
                total \in {DSumCompensated(xs, Len(xs))}} : TRUE

\* what pow() prefers in the calls that detect_anomalies makes on values:
\* for the square of value - mean_val, by value (pow() is a function, so
\* that equal distances have equal squares), and for the root of the
\* variance
PowRoundingsOf(values) ==
    [square : [{values[i] : i \in DOMAIN values} -> PowRoundings],
     root : PowRoundings]

\* The doubles of detect_anomalies for n >= 3 values: value - mean_val of
\* every value and threshold = threshold_std * std_dev.  The mean is a
\* rounded quotient, each difference is rounded, each square is what pow()
\* returns, the squares are summed by sum(), the variance and the product
\* with threshold_std are rounded, and the root of the variance is what
\* pow() returns; threshold10 is threshold_std in tenths.
DeviationDoubles(values, threshold10, summation, rounding) ==
    CHOOSE doubles \in
        {[distance |-> distance,
          \* threshold_std * std_dev, std_dev = variance ** 0.5
          threshold |->
              DMul(DIntDiv(threshold10, 10),
                   DPowHalf(DDiv(DSum([i \in DOMAIN values |->
                                          DPowTwo(distance[i],
                                                  rounding.square[values[i]])],
                                      summation),
                                 DInt(Len(values))),
                            rounding.root))] :
            \* value - mean_val of every value
            distance \in
                {[i \in DOMAIN values |-> DSub(DInt(values[i]), mean_val)] :
                    mean_val \in {DIntDiv(SeqSum(values), Len(values))}}} : TRUE

\* for each of the n >= 3 values, whether abs(value - mean_val) > threshold
\* as the code compares the two doubles
AnomalousDouble(values, threshold10, summation, rounding) ==
    CHOOSE flags \in
        {[i \in DOMAIN values |-> DLess(of.threshold, DAbs(of.distance[i]))] :
            of \in {DeviationDoubles(values, threshold10, summation, rounding)}} : TRUE

\* a variant that flags a value at the threshold too (>= for >)
detect_anomalies_AtThreshold(values, threshold10, summation, rounding) ==
    LET hits(of) ==
            SelectSeq([i \in DOMAIN values |-> i],
                      LAMBDA i : ~DLess(DAbs(of.distance[i]), of.threshold))
        pairs(found) == [k \in DOMAIN found |-> <<found[k] - 1, values[found[k]]>>]
    IN  IF Len(values) < 3 THEN <<>>
        ELSE pairs(hits(DeviationDoubles(values, threshold10, summation, rounding)))

\* The (index, value) pairs, indices from 0, of the values whose distance
\* from the mean exceeds threshold_std population standard deviations, or
\* nothing for fewer than 3 values.  Every value is decided by the doubles
\* of the code, which depend on the summation of the interpreter and on
\* pow() of the C library; a negative threshold_std flags every value.
detect_anomalies(values, threshold10, summation, rounding) ==
    LET hits(flags) == SelectSeq([i \in DOMAIN values |-> i], LAMBDA i : flags[i])
        pairs(found) == [k \in DOMAIN found |-> <<found[k] - 1, values[found[k]]>>]
    IN  IF Len(values) < 3 THEN <<>>
        ELSE pairs(hits(AnomalousDouble(values, threshold10, summation, rounding)))

(***************************************************************************)
(* Inputs of the pure functions.                                           *)
(***************************************************************************)
MaxSeriesLen == 5

MaxOptionCount == 5

MaxCount == 2

SeqsUpTo(S, n) == UNION {[1..k -> S] : k \in 0..n}

AnomalyValues == {1, 100}

\* the longest series of AnomalyValues that detect_anomalies is called with,
\* beside the series named below
MaxAnomalyLen == 3

\* the series of the anomaly scenario
AnomalyScenarioSeries == {<<1, 1, 1, 1, 100>>}

\* threshold_std in tenths; the function accepts a negative one
Thresholds10 == {0 - 10, 5, 10, 15, 20, 30}

TrendValues == {0, 5, 10, 11, 20, 25}

\* vote counts of a day of daily_votes: the query groups the votes by day,
\* so that every day it returns has at least one vote
TrendCounts == {5, 10, 11, 20, 25}

AgeHours == {0 - 24, 0, 36, 300}

\* series that lie exactly on a threshold of a trend rule while a mean is
\* not a binary fraction, so that the rounding of the doubles decides
ThresholdSeries == {<<16, 17, 17, 15, 15, 15>>, <<2, 4, 4, 1, 4, 4>>, <<4, 3, 3, 3, 3, 3>>}

\* a series with a value exactly half a standard deviation from the mean
HalfDeviationSeries == {<<0, 0, 0, 1, 2>>}

\* a series whose first value lies next to one standard deviation without
\* lying on it, and a series with a negative value
NearDeviationSeries == {<<189750626, 138907099, 0>>, <<0 - 3, 0, 3>>}

\* eighty values of which ten lie below 5 and three equal it: the rank
\* 14.375 lies between two hundredths
LongDataset == [i \in 1..80 |-> IF i <= 10 THEN 0 ELSE IF i <= 13 THEN 5 ELSE 10]

\* views for which a score lies between two hundredths
ManyViews == 2000

\* the calls of the pure functions, each with its arguments
EngagementScoreCalls ==
    {[op |-> "calculate_engagement_score", state |-> "call",
      votes |-> v, views |-> w, unique_voters |-> u,
      poll_age_hours |-> h, option_count |-> c] :
        v \in 0..MaxCount, w \in 0..MaxCount, u \in 0..MaxCount,
        h \in AgeHours, c \in 0..MaxOptionCount}

AnomalyCalls ==
    {[op |-> "detect_anomalies", state |-> "call", values |-> values, threshold10 |-> t] :
        values \in SeqsUpTo(AnomalyValues, MaxAnomalyLen) \cup AnomalyScenarioSeries
                       \cup HalfDeviationSeries \cup NearDeviationSeries,
        t \in Thresholds10}

TrendCalls ==
    {[op |-> "_calculate_engagement_trend", state |-> "call", counts |-> counts] :
        counts \in SeqsUpTo(TrendCounts, MaxSeriesLen) \cup ThresholdSeries}

WindowSizes == 0..3

TrendDirectionCalls ==
    {[op |-> "calculate_trend_direction", state |-> "call", values |-> c[1],
      window_size |-> c[2]] :
        c \in (SeqsUpTo(TrendValues, MaxSeriesLen) \cup ThresholdSeries)
                  \X WindowSizes}

\* vote counts around the ten votes that reach the cap, and ages around the
\* thirty days that end the recency term
ScoreVoteCounts == {0, 1, 3, 9, 10, 11}

ScoreDaysOld == {0 - 1, 0, 2, 29, 30, 31, 45}

PerformanceScoreCalls ==
    {[op |-> "_calculate_poll_performance_score", state |-> "call",
      vote_count |-> v, poll_views |-> w, days_old |-> d] :
        v \in ScoreVoteCounts, w \in 0..MaxCount \cup {ManyViews},
        d \in ScoreDaysOld}

RankValues == {0, 5, 10}

MovingAverageCalls ==
    {[op |-> "calculate_moving_average", state |-> "call", values |-> c[1],
      window_size |-> c[2]] : c \in SeqsUpTo(RankValues, MaxSeriesLen) \X WindowSizes}

PercentileRankCalls ==
    {[op |-> "calculate_percentile_rank", state |-> "call", value |-> v,
      dataset |-> d] :
        v \in RankValues, d \in SeqsUpTo(RankValues, MaxSeriesLen) \cup {LongDataset}}

InitCalc ==
    /\ polls = <<>>
    /\ options = <<>>
    /\ votes = <<>>
    /\ now = 0
    /\ result = NoResult
    /\ calc \in {c \in EngagementScoreCalls : c.unique_voters <= c.votes}
                \cup AnomalyCalls \cup TrendCalls \cup TrendDirectionCalls
                \cup PerformanceScoreCalls \cup PercentileRankCalls
                \cup MovingAverageCalls

CalculateEngagementScore ==
    /\ calc.op = "calculate_engagement_score"
    /\ calc.state = "call"
    /\ LET r == calculate_engagement_score(calc.votes, calc.views, calc.unique_voters,
                                           calc.poll_age_hours, calc.option_count)
       IN  calc' = [op |-> calc.op, state |-> "done",
                    votes |-> calc.votes, views |-> calc.views,
                    unique_voters |-> calc.unique_voters,
                    poll_age_hours |-> calc.poll_age_hours,
                    option_count |-> calc.option_count,
                    complexity_factor |-> r.complexity_factor,
                    value |-> r.value]
    /\ UNCHANGED <<polls, options, votes, now, result>>

DetectAnomalies ==
    /\ calc.op = "detect_anomalies"
    /\ calc.state = "call"
    /\ \E summation \in Summations, rounding \in PowRoundingsOf(calc.values) :
          calc' = [op |-> calc.op, state |-> "done", values |-> calc.values,
                   threshold10 |-> calc.threshold10,
                   value |-> detect_anomalies(calc.values, calc.threshold10,
                                              summation, rounding)]
    /\ UNCHANGED <<polls, options, votes, now, result>>

CalculateEngagementTrend ==
    /\ calc.op = "_calculate_engagement_trend"
    /\ calc.state = "call"
    /\ calc' = [op |-> calc.op, state |-> "done", counts |-> calc.counts,
                value |-> EngagementTrend(calc.counts)]
    /\ UNCHANGED <<polls, options, votes, now, result>>

CalculateTrendDirection ==
    /\ calc.op = "calculate_trend_direction"
    /\ calc.state = "call"
    /\ LET r == calculate_trend_direction(calc.values, calc.window_size)
       IN  calc' = [op |-> calc.op, state |-> "done", values |-> calc.values,
                    window_size |-> calc.window_size,
                    status |-> r.status, value |-> r.value]
    /\ UNCHANGED <<polls, options, votes, now, result>>

\* the arithmetic of _calculate_poll_performance_score on the three numbers
\* it reads from the store
CalculatePerformanceScore ==
    /\ calc.op = "_calculate_poll_performance_score"
    /\ calc.state = "call"
    /\ calc' = [op |-> calc.op, state |-> "done", vote_count |-> calc.vote_count,
                poll_views |-> calc.poll_views, days_old |-> calc.days_old,
                value |-> PerformanceScore(calc.vote_count, calc.poll_views,
                                           calc.days_old)]
    /\ UNCHANGED <<polls, options, votes, now, result>>

CalculatePercentileRank ==
    /\ calc.op = "calculate_percentile_rank"
    /\ calc.state = "call"
    /\ calc' = [op |-> calc.op, state |-> "done", value |-> calc.value,
                dataset |-> calc.dataset,
                rank |-> calculate_percentile_rank(calc.value, calc.dataset)]
    /\ UNCHANGED <<polls, options, votes, now, result>>

CalculateMovingAverage ==
    /\ calc.op = "calculate_moving_average"
    /\ calc.state = "call"
    /\ LET r == calculate_moving_average(calc.values, calc.window_size)
       IN  calc' = [op |-> calc.op, state |-> "done", values |-> calc.values,
                    window_size |-> calc.window_size,
                    status |-> r.status, value |-> r.value]
    /\ UNCHANGED <<polls, options, votes, now, result>>

NextCalc ==
    \/ CalculateEngagementScore
    \/ DetectAnomalies
    \/ CalculateEngagementTrend
    \/ CalculateTrendDirection
    \/ CalculatePerformanceScore
    \/ CalculatePercentileRank
    \/ CalculateMovingAverage

SpecCalc == InitCalc /\ [][NextCalc]_vars

(***************************************************************************)
(* TimeAnalyzer.calculate_activity_velocity: its loop, one iteration per   *)
(* step.  Timestamps are minutes; a window of window_hours hours slides    *)
(* by one hour.                                                            *)
(***************************************************************************)
MaxStamps == 3

StampValues == {0, 30, 60, 125, 200}

RECURSIVE SortAscending(_)
\* sorted(timestamps)
SortAscending(s) ==
    IF s = <<>> THEN <<>>
    ELSE LET i == CHOOSE k \in DOMAIN s : \A j \in DOMAIN s : s[k] <= s[j]
             rest == [k \in 1..(Len(s) - 1) |-> IF k < i THEN s[k] ELSE s[k + 1]]
         IN  <<s[i]>> \o SortAscending(rest)

\* a variant whose window is closed at its end: current_time <= ts <= window_end
VelocitySample_ClosedWindow(sorted_timestamps, current_time, window_hours) ==
    LET window_end == current_time + window_hours * MinutesPerHour
        count == Cardinality({k \in DOMAIN sorted_timestamps :
                     /\ current_time <= sorted_timestamps[k]
                     /\ sorted_timestamps[k] <= window_end})
    IN  <<current_time, Rat(count, window_hours)>>

\* (current_time, count / window_hours) with count the timestamps in
\* [current_time, current_time + window_delta), for window_hours > 0
VelocitySample(sorted_timestamps, current_time, window_hours) ==
    LET window_end == current_time + window_hours * MinutesPerHour
        count == Cardinality({k \in DOMAIN sorted_timestamps :
                     /\ current_time <= sorted_timestamps[k]
                     /\ sorted_timestamps[k] < window_end})
    IN  <<current_time, Rat(count, window_hours)>>

VelocityCalls ==
    {[op |-> "calculate_activity_velocity", state |-> "call", timestamps |-> c[1],
      window_hours |-> c[2]] : c \in SeqsUpTo(StampValues, MaxStamps) \X (0..2)}

InitVelocity ==
    /\ polls = <<>>
    /\ options = <<>>
    /\ votes = <<>>
    /\ now = 0
    /\ result = NoResult
    /\ calc \in VelocityCalls

\* the call up to the loop: an empty list returns [] at once
VelocityEnter ==
    /\ calc.op = "calculate_activity_velocity"
    /\ calc.state = "call"
    /\ LET sorted_timestamps == SortAscending(calc.timestamps)
       IN  calc' = IF calc.timestamps = <<>>
                   THEN [op |-> calc.op, state |-> "done", status |-> "ok",
                         timestamps |-> calc.timestamps,
                         window_hours |-> calc.window_hours,
                         sorted_timestamps |-> <<>>, current_time |-> 0,
                         velocities |-> <<>>]
                   ELSE [op |-> calc.op, state |-> "loop", status |-> "ok",
                         timestamps |-> calc.timestamps,
                         window_hours |-> calc.window_hours,
                         sorted_timestamps |-> sorted_timestamps,
                         current_time |-> sorted_timestamps[1],
                         velocities |-> <<>>]
    /\ UNCHANGED <<polls, options, votes, now, result>>

\* one iteration of `while current_time <= end_time`; count / window_hours
\* raises ZeroDivisionError for window_hours = 0
VelocityIterate ==
    /\ calc.op = "calculate_activity_velocity"
    /\ calc.state = "loop"
    /\ calc.current_time <= calc.sorted_timestamps[Len(calc.sorted_timestamps)]
    /\ calc' = IF calc.window_hours = 0
                THEN [calc EXCEPT !.state = "done", !.status = "ZeroDivisionError"]
                ELSE [calc EXCEPT
                        !.velocities = Append(@, VelocitySample(calc.sorted_timestamps,
                                                  calc.current_time, calc.window_hours)),
                        !.current_time = @ + MinutesPerHour]
    /\ UNCHANGED <<polls, options, votes, now, result>>

\* the loop condition fails: return velocities
VelocityReturn ==
    /\ calc.op = "calculate_activity_velocity"
    /\ calc.state = "loop"
    /\ calc.current_time > calc.sorted_timestamps[Len(calc.sorted_timestamps)]
    /\ calc' = [calc EXCEPT !.state = "done"]
    /\ UNCHANGED <<polls, options, votes, now, result>>

NextVelocity ==
    \/ VelocityEnter
    \/ VelocityIterate
    \/ VelocityReturn

\* a call that was started keeps running until it returns or raises
SpecVelocity == InitVelocity /\ [][NextVelocity]_vars /\ WF_vars(NextVelocity)

(***************************************************************************)
(* Specifications of the service: each explores the part of the store one  *)
(* operation reads.                                                        *)
(***************************************************************************)
DetailInstants == {30, 90, Days(2), Days(40)}

\* the requests that write to one poll with any options: its views, its
\* votes, its age
PollDetailWrites ==
    \/ \E texts \in OptionTexts, skew \in ClockSkews :
          polls = <<>> /\ CreatePoll(1, texts, skew)
    \/ \E p \in PollIds : ViewPoll(p)
    \/ \E o \in OptionIds, u \in Users : CastVote(o, u)
    \/ \E t \in DetailInstants : AdvanceClock(t)

\* poll detail, one request at a time: no request writes to the store while
\* a call of get_poll_analytics is in progress
NextPollDetail ==
    \/ calc = NoCall /\ PollDetailWrites
    \/ \E p \in 1..2 : GetPollAnalytics(p)
    \/ PollAnalyticsStep

SpecPollDetail == Init /\ [][NextPollDetail]_vars

RacingInstants == {30, Days(2)}

\* poll detail with concurrent requests: views, votes and the clock advance
\* between any two queries of a call
NextPollDetailRacing ==
    \/ polls = <<>> /\ CreatePoll(1, <<"Yes", "No">>, 0)
    \/ \E p \in PollIds : ViewPoll(p)
    \/ \E o \in OptionIds, u \in Users : CastVote(o, u)
    \/ \E t \in RacingInstants : AdvanceClock(t)
    \/ GetPollAnalytics(1)
    \/ PollAnalyticsStep

SpecPollDetailRacing == Init /\ [][NextPollDetailRacing]_vars

TrendInstants == {90, Days(1) + 30, Days(3), Days(12)}

TrendDays == {1, 7}

\* voting trends: polls of two owners, votes of two users cast on several
\* days (the trends read neither the option texts nor the views)
TrendsWrites ==
    \/ \E owner \in Users : CreatePoll(owner, <<"Yes">>, 0)
    \/ \E o \in OptionIds, u \in Users : CastVote(o, u)
    \/ \E t \in TrendInstants : AdvanceClock(t)

\* one request at a time: no request writes while a call is in progress
NextTrends ==
    \/ calc = NoCall /\ TrendsWrites
    \/ \E u \in Users, days \in TrendDays : GetVotingTrends(u, days)
    \/ VotingTrendsStep

SpecTrends == Init /\ [][NextTrends]_vars

PopularInstants == {Days(2), Days(9), Days(40), Days(400)}

\* popular polls: polls of two owners and of several ages, with votes (the
\* operation does not read who cast a vote, nor on which option)
PopularWrites ==
    \/ \E owner \in Users : CreatePoll(owner, <<"Yes", "No">>, 0)
    \/ \E p \in PollIds : CastVote(CHOOSE o \in OptionsOf(p) : TRUE, 1)
    \/ \E t \in PopularInstants : AdvanceClock(t)

\* one request at a time: no request writes while a call is in progress
NextPopular ==
    \/ calc = NoCall /\ PopularWrites
    \/ \E limit \in 1..MaxPolls, timeframe \in Timeframes \cup {"decade"} :
          GetPopularPolls(limit, timeframe)

SpecPopular == Init /\ [][NextPopular]_vars

\* the four operations on one store: polls of two owners, with views and
\* votes, read by every operation in turn
ServiceInstants == {Days(2)}

ServiceWrites ==
    \/ \E owner \in Users : CreatePoll(owner, <<"Yes">>, 0)
    \/ \E p \in PollIds : ViewPoll(p)
    \/ \E o \in OptionIds, u \in Users : CastVote(o, u)
    \/ \E t \in ServiceInstants : AdvanceClock(t)

\* one request at a time: no request writes while a call is in progress
NextService ==
    \/ calc = NoCall /\ ServiceWrites
    \/ \E u \in Users : GetUserAnalyticsOverview(u)
    \/ \E p \in PollIds : GetPollAnalytics(p)
    \/ \E u \in Users : GetVotingTrends(u, 7)
    \/ \E timeframe \in {"day", "all"} : GetPopularPolls(MaxPolls, timeframe)
    \/ OverviewStep
    \/ PollAnalyticsStep
    \/ VotingTrendsStep

SpecService == Init /\ [][NextService]_vars

OverviewInstants == {60, Days(40)}

\* user overview: polls of two owners, with views and votes (the overview
\* does not read who cast a vote)
OverviewWrites ==
    \/ \E owner \in Users : CreatePoll(owner, <<"Yes">>, 0)
    \/ \E p \in PollIds : ViewPoll(p)
    \/ \E o \in OptionIds : CastVote(o, 1)
    \/ \E t \in OverviewInstants : AdvanceClock(t)

\* one request at a time: no request writes while a call is in progress
NextOverview ==
    \/ calc = NoCall /\ OverviewWrites
    \/ \E u \in (0 - 1)..2 : GetUserAnalyticsOverview(u)
    \/ OverviewStep

SpecOverview == Init /\ [][NextOverview]_vars

StepInstants == {Days(40)}

\* one overview call at a time, for user 1 or the invalid user 0, while
\* other requests create polls for user 1, vote and time passes
NextOverviewSteps ==
    \/ CreatePoll(1, <<"Yes">>, 0)
    \/ \E p \in PollIds : ViewPoll(p)
    \/ \E o \in OptionIds : CastVote(o, 2)
    \/ \E t \in StepInstants : AdvanceClock(t)
    \/ \E u \in 0..1 : GetUserAnalyticsOverview(u)
    \/ OverviewStep

SpecOverviewSteps == Init /\ [][NextOverviewSteps]_vars

(***************************************************************************)
(* Route GET /polls/{poll_id}/engagement.                                  *)
(***************************************************************************)
\* routes.py, lines 195 and 38-45: the lookup of verify_poll_ownership; the
\* route goes on only for the owner of a poll that exists
GetPollEngagementDetails(poll_id, current_user) ==
    /\ calc = NoCall
    /\ IF OwnershipFailure(poll_id, current_user) # 200
       THEN /\ result' = [op |-> "get_poll_engagement_details",
                          status |-> OwnershipFailure(poll_id, current_user),
                          poll_id |-> poll_id]
            /\ calc' = NoCall
       ELSE /\ result' = result
            /\ calc' = [op |-> "get_poll_engagement_details", state |-> "poll",
                        poll_id |-> poll_id, poll |-> polls[poll_id]]
    /\ UNCHANGED <<polls, options, votes, now>>

\* routes.py, line 201: the call of get_poll_analytics and its lookup of the
\* poll, which a session with an identity map answers with the object of
\* verify_poll_ownership
EngagementQueryPoll ==
    /\ calc.op = "get_poll_engagement_details"
    /\ \E poll \in {calc.poll, polls[calc.poll_id]} :
          PollAnalyticsQueryPoll(calc.poll_id, Some(calc.poll), poll)
    /\ UNCHANGED <<polls, options, votes, now>>

EngagementInstants == {90, Days(2)}

\* one poll of user 1 with views and votes, requested by its owner, by
\* another user, and under an id that does not exist
NextEngagement ==
    \/ polls = <<>> /\ CreatePoll(1, <<"Yes", "No">>, 0)
    \/ \E p \in PollIds : ViewPoll(p)
    \/ \E o \in OptionIds, u \in Users : CastVote(o, u)
    \/ \E t \in EngagementInstants : AdvanceClock(t)
    \/ \E p \in 1..2, u \in Users : GetPollEngagementDetails(p, u)
    \/ EngagementQueryPoll
    \/ PollAnalyticsStep

SpecEngagement == Init /\ [][NextEngagement]_vars

(***************************************************************************)
(* Properties of the poll detail (SpecPollDetail).                         *)
(***************************************************************************)
IsPollAnalytics == result.op = "get_poll_analytics" /\ result.status = "ok"

\* C1: in every PollAnalytics that get_poll_analytics returns, the values of
\* vote_distribution sum to total_votes.
C1_DistributionSumsToTotal ==
    IsPollAnalytics =>
        SetSum(DOMAIN result.vote_distribution, result.vote_distribution)
            = result.total_votes

\* a poll with two options of different texts, both voted on, was analysed
C1_Witness ==
    /\ IsPollAnalytics
    /\ Cardinality(DOMAIN result.vote_distribution) = 2
    /\ \A t \in DOMAIN result.vote_distribution : result.vote_distribution[t] >= 1
    /\ result.total_votes = 3

\* C2 as stated: the engagement_rate of every PollAnalytics is within [0, 100].
C2_EngagementRateWithin100 ==
    IsPollAnalytics =>
        /\ RatLE(Zero, result.engagement_rate)
        /\ RatLE(result.engagement_rate, Rat(100, 1))

\* C2 as amended: the engagement_rate is total_votes / total_views * 100
\* without a clamp for a poll with views, and 0 for a poll without views,
\* whatever its votes: never negative, at most 100 when the poll has views
\* and the votes do not outnumber them, above 100 when the poll has views
\* and the votes outnumber them.
C2_EngagementRateUnclamped ==
    IsPollAnalytics =>
        /\ result.total_views > 0 =>
              result.engagement_rate = Rat(100 * result.total_votes, result.total_views)
        /\ result.total_views = 0 => result.engagement_rate = Zero
        /\ RatLE(Zero, result.engagement_rate)
        /\ (result.total_views > 0 /\ result.total_votes <= result.total_views)
              => RatLE(result.engagement_rate, Rat(100, 1))
        /\ (result.total_views > 0 /\ result.total_votes > result.total_views)
              => RatLT(Rat(100, 1), result.engagement_rate)

\* a poll with views and more votes than views was analysed
C2_Witness ==
    /\ IsPollAnalytics
    /\ result.total_views > 0
    /\ result.total_votes > result.total_views

\* C3: the performance_score of every PollAnalytics is within [0, 100], also
\* for a poll whose creation time is later than now.
C3_PerformanceScoreWithin100 ==
    IsPollAnalytics =>
        /\ RatLE(Zero, result.performance_score)
        /\ RatLE(result.performance_score, Rat(100, 1))

\* a poll created later than now, with votes and views, was analysed and
\* its score is the cap
C3_Witness ==
    /\ IsPollAnalytics
    /\ result.created_at > now
    /\ result.total_votes >= 1
    /\ result.total_views >= 1
    /\ result.performance_score = Rat(100, 1)

\* C6 as stated: vote_velocity is total_votes / hours_since_creation, and it
\* is 0.0 for every poll less than one hour old.
C6_VelocityZeroUnderOneHour ==
    IsPollAnalytics =>
        LET age == now - result.created_at
        IN  IF age < MinutesPerHour THEN result.vote_velocity = Zero
            ELSE result.vote_velocity.num * age
                    = result.total_votes * MinutesPerHour * result.vote_velocity.den

\* C6 as amended: vote_velocity is total_votes / hours_since_creation
\* whenever hours_since_creation > 0, also for a poll less than one hour
\* old; it is 0.0 only when hours_since_creation <= 0.
C6_VelocityZeroOnlyWhenNotOlderThanNow ==
    IsPollAnalytics =>
        LET age == now - result.created_at
        IN  IF age <= 0 THEN result.vote_velocity = Zero
            ELSE result.vote_velocity.num * age
                    = result.total_votes * MinutesPerHour * result.vote_velocity.den

\* a poll less than one hour old that has a vote was analysed: its velocity
\* is more than its votes
C6_Witness ==
    /\ IsPollAnalytics
    /\ now - result.created_at > 0
    /\ now - result.created_at < MinutesPerHour
    /\ result.total_votes >= 1
    /\ RatLT(Rat(result.total_votes, 1), result.vote_velocity)

(***************************************************************************)
(* Properties of the pure functions (SpecCalc).                            *)
(***************************************************************************)
IsEngagementScore == calc.op = "calculate_engagement_score" /\ calc.state = "done"

\* C4 as stated: for every option_count of one or more, the complexity
\* factor applied to the engagement score is within [1.0, 1.2].
C4_ComplexityFactorWithinOneAndOnePointTwo ==
    (IsEngagementScore /\ calc.complexity_factor # None /\ calc.option_count >= 1) =>
        /\ RatLE(Rat(1, 1), calc.complexity_factor[1])
        /\ RatLE(calc.complexity_factor[1], Rat(12, 10))

\* C4 as amended: the complexity factor is at most 1.2 for every
\* option_count; it is within [1.0, 1.2] for two or more options and is 0.9
\* for a poll with one option.
C4_ComplexityFactorFromTwoOptions ==
    (IsEngagementScore /\ calc.complexity_factor # None /\ calc.option_count >= 1) =>
        /\ RatLE(calc.complexity_factor[1], Rat(12, 10))
        /\ calc.option_count >= 2 => RatLE(Rat(1, 1), calc.complexity_factor[1])
        /\ calc.option_count = 1 => calc.complexity_factor[1] = Rat(9, 10)

\* the score of a viewed poll with one option was computed
C4_Witness ==
    /\ IsEngagementScore
    /\ calc.views > 0
    /\ calc.option_count = 1
    /\ calc.complexity_factor = Some(Rat(9, 10))

IsAnomalyScenario ==
    /\ calc.op = "detect_anomalies"
    /\ calc.state = "done"
    /\ calc.values = <<1, 1, 1, 1, 100>>

\* C5 as stated: detect_anomalies on [1,1,1,1,100] with threshold_std = 2.0
\* returns exactly one anomaly, the point at index 4.
C5_FlagsIndexFour ==
    (IsAnomalyScenario /\ calc.threshold10 = 20) => calc.value = << <<4, 100>> >>

\* C5 as amended: on [1,1,1,1,100] with threshold_std = 2.0 no point is
\* flagged (index 4 deviates by exactly 2.0 standard deviations, which does
\* not exceed the threshold); with threshold_std = 1.5 index 4 is the only
\* anomaly.
C5_FlagsNothingAtTwo ==
    /\ (IsAnomalyScenario /\ calc.threshold10 = 20) => calc.value = <<>>
    /\ (IsAnomalyScenario /\ calc.threshold10 = 15) => calc.value = << <<4, 100>> >>

\* the scenario was run with threshold_std = 2.0
C5_Witness == IsAnomalyScenario /\ calc.threshold10 = 20 /\ calc.value = <<>>

\* C8: a series of fewer than two entries is "stable"; otherwise, with the
\* first floor(n/2) entries as first half and the rest as second half, it is
\* "increasing" iff mean(second) > 1.10 * mean(first), "decreasing" iff
\* mean(second) < 0.90 * mean(first), and "stable" otherwise; [10,5,20,25]
\* is "increasing".
C8_EngagementTrendRule ==
    (calc.op = "_calculate_engagement_trend" /\ calc.state = "done") =>
        LET n == Len(calc.counts)
            first == SubSeq(calc.counts, 1, n \div 2)
            second == SubSeq(calc.counts, n \div 2 + 1, n)
            \* mean(s) > mean(t) * tenths / 10, cleared of the divisions
            above(s, t, tenths) ==
                10 * SeqSum(s) * Len(t) > tenths * SeqSum(t) * Len(s)
            below(s, t, tenths) ==
                10 * SeqSum(s) * Len(t) < tenths * SeqSum(t) * Len(s)
        IN  /\ n < 2 => calc.value = "stable"
            /\ n >= 2 =>
                /\ calc.value = "increasing" <=> above(second, first, 11)
                /\ calc.value = "decreasing" <=> below(second, first, 9)
                /\ calc.value \in {"increasing", "decreasing", "stable"}
            /\ calc.counts = <<10, 5, 20, 25>> => calc.value = "increasing"

(***************************************************************************)
(* Properties of the voting trends (SpecTrends).                           *)
(***************************************************************************)
\* C7: the daily_votes list that get_voting_trends returns is in ascending
\* order of date, whatever order the store returns the grouped rows in.
C7_DailyVotesAscending ==
    (result.op = "get_voting_trends" /\ result.status = "ok") =>
        \A i, j \in DOMAIN result.daily_votes :
            i < j => result.daily_votes[i].date < result.daily_votes[j].date

(***************************************************************************)
(* Properties of the popular polls (SpecPopular).                          *)
(***************************************************************************)
\* a call of get_popular_polls with one of the five timeframes
IsPopularPollsCall ==
    result.op = "get_popular_polls" /\ result.timeframe \in Timeframes

\* C9: get_popular_polls returns the polls of the timeframe, and every poll
\* it returns was created at or after the cutoff of the timeframe (day 1,
\* week 7, month 30, year 365 days before now; "all" has no cutoff), so that
\* a "week" ranking holds no poll created before now - 7 days.
C9_PopularPollsWithinCutoff ==
    IsPopularPollsCall =>
        /\ result.status = "ok"
        /\ \A i \in DOMAIN result.polls :
              result.polls[i].created_at >= _calculate_cutoff_date(result.timeframe)

\* C26: get_popular_polls(limit, timeframe) returns at most limit entries
\* in non-increasing vote_count order, each with the votes of its poll and at
\* least one vote, and no poll created at or after the cutoff that has a vote
\* and was left out has more votes than a returned poll.
C26_PopularPollsRankedAndLimited ==
    IsPopularPollsCall =>
        /\ result.status = "ok"
        /\ Len(result.polls) <= result.limit
        /\ LET returned == {result.polls[i].poll_id : i \in DOMAIN result.polls}
               eligible == {p \in PollIds :
                              /\ Cardinality(VotesOfPoll(p)) >= 1
                              /\ polls[p].created_at
                                    >= _calculate_cutoff_date(result.timeframe)}
           IN  \A i \in DOMAIN result.polls :
                  /\ result.polls[i].vote_count =
                        Cardinality(VotesOfPoll(result.polls[i].poll_id))
                  /\ result.polls[i].vote_count >= 1
                  /\ \A j \in DOMAIN result.polls :
                        i < j => result.polls[i].vote_count >= result.polls[j].vote_count
                  /\ \A q \in eligible \ returned :
                        Cardinality(VotesOfPoll(q)) <= result.polls[i].vote_count

(***************************************************************************)
(* Properties of the user overview (SpecOverview).                         *)
(***************************************************************************)
IsOverview == result.op = "get_user_analytics_overview" /\ result.status = "ok"

\* a call of get_user_analytics_overview for a user id that is valid
IsOverviewCall == result.op = "get_user_analytics_overview" /\ result.user_id > 0

\* the largest vote count among the polls of a list
HighestCount(list) ==
    CHOOSE c \in {VoteCount(list[i]) : i \in DOMAIN list} :
        \A i \in DOMAIN list : VoteCount(list[i]) <= c

\* the first poll of a list that has the largest vote count
FirstHighest(list) ==
    list[CHOOSE i \in DOMAIN list :
            /\ VoteCount(list[i]) = HighestCount(list)
            /\ \A j \in DOMAIN list : j < i => VoteCount(list[j]) < HighestCount(list)]

\* C10: for a user who owns polls, get_user_analytics_overview returns an
\* overview whose most_popular_poll is the owned poll with the highest vote
\* count, the first one in the owned-poll list when several share it.
C10_MostPopularIsFirstHighest ==
    (IsOverviewCall /\ PollsOwnedBy(result.user_id) # {}) =>
        /\ result.status = "ok"
        /\ result.most_popular_poll = Some(FirstHighest(result.user_polls))

\* C27: the overview of a user who owns a poll is returned, its
\* most_popular_poll is None if and only if none of the polls of the user
\* has a vote, and a poll it names is owned by the user.
C27_MostPopularNoneIffNoVotes ==
    (IsOverviewCall /\ PollsOwnedBy(result.user_id) # {}) =>
        /\ result.status = "ok"
        /\ LET owned == {p \in PollIds : polls[p].owner_id = result.user_id}
           IN  /\ (result.most_popular_poll = None) <=>
                     (\A p \in owned : VotesOfPoll(p) = {})
               /\ result.most_popular_poll # None =>
                     result.most_popular_poll[1] \in owned

\* C28: get_user_analytics_overview returns an overview, and every overview
\* it returns has polls_created_this_month <= total_polls, also when other
\* requests create polls for the same user between the queries of the call.
C28_ThisMonthWithinTotalUnderWrites ==
    IsOverviewCall =>
        /\ result.status = "ok"
        /\ result.polls_created_this_month <= result.total_polls

\* the sum of votes / views * 100 over the polls of S, each with views
RECURSIVE RateSum(_)
RateSum(S) ==
    IF S = {} THEN Zero
    ELSE LET p == CHOOSE q \in S : TRUE
         IN  RatAdd(Rat(100 * VoteCount(p), ViewCount(p)), RateSum(S \ {p}))

\* C11: the overview is returned and its average_engagement_rate is the
\* mean of votes / views * 100 over exactly the owned polls with views > 0;
\* polls without views add nothing to the sum or to the divisor, and the
\* value is 0.0 when no owned poll has views.
C11_AverageOverViewedPolls ==
    IsOverviewCall =>
        /\ result.status = "ok"
        /\ LET viewed == {p \in PollIds : /\ polls[p].owner_id = result.user_id
                                          /\ ViewCount(p) > 0}
           IN  IF viewed = {} THEN result.average_engagement_rate = Zero
               ELSE result.average_engagement_rate
                       = RatMul(RateSum(viewed), Rat(1, Cardinality(viewed)))

\* C12: for a user who owns no poll, get_user_analytics_overview returns an
\* overview with total_polls = 0, total_votes_received = 0,
\* average_engagement_rate = 0.0, no most popular poll, no recent activity,
\* polls_created_this_month = 0 and total_poll_views = 0, whatever the store
\* holds for other users.
C12_EmptyOverviewWithoutPolls ==
    (IsOverviewCall /\ \A p \in PollIds : polls[p].owner_id # result.user_id) =>
        /\ result.status = "ok"
        /\ result.total_polls = 0
        /\ result.total_votes_received = 0
        /\ result.average_engagement_rate = Zero
        /\ result.most_popular_poll = None
        /\ result.recent_activity = <<>>
        /\ result.polls_created_this_month = 0
        /\ result.total_poll_views = 0

\* the overview of a user without polls was computed while another user
\* owns a poll that has a view and a vote
C12_Witness ==
    /\ IsOverview
    /\ result.total_polls = 0
    /\ \A p \in PollIds : polls[p].owner_id # result.user_id
    /\ \E p \in PollIds : ViewCount(p) >= 1 /\ VoteCount(p) >= 1


\* C13: for every user_id <= 0, get_user_analytics_overview returns no
\* overview: it fails with the ValueError of the invalid argument, which
\* reaches the caller as it was raised and not wrapped in a RuntimeError.
C13_InvalidUserIdRaisesValueError ==
    (result.op = "get_user_analytics_overview" /\ result.user_id <= 0) =>
        /\ result.status = "ValueError"
        /\ result.message = "User ID must be positive"

\* the overview was asked for the user id -1 while the store holds polls
C13_Witness ==
    /\ result.op = "get_user_analytics_overview"
    /\ result.user_id < 0
    /\ result.status = "ValueError"
    /\ PollIds # {}


\* a call of get_poll_analytics for an id that no poll has
IsPollNotFound ==
    /\ result.op = "get_poll_analytics"
    /\ result.poll_id \notin PollIds

\* C14 as stated: get_poll_analytics fails for an id that no poll has, with
\* a failure of a kind distinct from the kind raised for invalid input (a
\* user_id <= 0, an invalid timeframe).
C14_NotFoundDistinctFromInvalidArgument ==
    IsPollNotFound =>
        /\ result.status # "ok"
        /\ result.status \notin {InvalidUserId.type, InvalidTimeframe.type}

\* C14 as amended: get_poll_analytics fails for an id that no poll has with
\* a ValueError, the same type of exception as the one raised for invalid
\* input; only the message tells the two apart.
C14_NotFoundIsValueError ==
    IsPollNotFound =>
        /\ result.status = "ValueError"
        /\ result.status = InvalidUserId.type
        /\ result.status = InvalidTimeframe.type
        /\ result.message \notin {InvalidUserId.message, InvalidTimeframe.message}

\* poll 2 was asked for while the store holds poll 1 only
C14_Witness ==
    /\ IsPollNotFound
    /\ result.poll_id = 2
    /\ PollIds = {1}
    /\ result.status = "ValueError"


\* C15: every option of an analysed poll appears in vote_distribution under
\* its text, and an option without votes appears with the count 0.
C15_EveryOptionListedZeroIncluded ==
    IsPollAnalytics =>
        \A o \in OptionsOf(result.poll_id) :
            /\ options[o].text \in DOMAIN result.vote_distribution
            /\ VotesOfOption(o) = {} =>
                  result.vote_distribution[options[o].text] = 0

\* C25: for every poll, also one with two options of the same text, the
\* total_votes of its PollAnalytics is the number of votes cast on its
\* options, and therefore unique_voters <= total_votes.
C25_TotalVotesCountsEveryVote ==
    IsPollAnalytics =>
        /\ result.total_votes = Cardinality(VotesOfPoll(result.poll_id))
        /\ result.unique_voters <= result.total_votes


\* the votes cast on the polls that a user owns
VotesReceivedBy(user_id) ==
    {v \in VoteIds : polls[options[votes[v].option_id].poll_id].owner_id = user_id}

\* C16: the overview is returned, its recent_activity holds at most 10
\* items, they are exactly the most recent votes cast on the user's polls,
\* each of type "vote", and they are ordered by non-increasing timestamp.
C16_RecentActivityIsTenNewestVotes ==
    IsOverviewCall =>
        /\ result.status = "ok"
        /\ LET mine == VotesReceivedBy(result.user_id)
               items == result.recent_activity
               times == {votes[v].created_at : v \in mine}
           IN  /\ Len(items) = Min(RecentActivityLimit, Cardinality(mine))
               /\ \A i \in DOMAIN items :
                     /\ items[i].activity_type = "vote"
                     /\ \E v \in mine :
                           /\ votes[v].created_at = items[i].timestamp
                           /\ options[votes[v].option_id].poll_id = items[i].poll_id
               /\ \A i, j \in DOMAIN items :
                     i < j => items[i].timestamp >= items[j].timestamp
               \* as many items as votes at or after each instant, up to the limit
               /\ \A t \in times :
                     Cardinality({i \in DOMAIN items : items[i].timestamp >= t})
                        = Min(Len(items),
                              Cardinality({v \in mine : votes[v].created_at >= t}))

(***************************************************************************)
(* Properties of the four operations together (SpecService).               *)
(***************************************************************************)
AnalyticsOps ==
    {"get_user_analytics_overview", "get_poll_analytics", "get_voting_trends",
     "get_popular_polls"}

\* the parameters of the call that a response answers
CallParameters(r) ==
    CASE r.op = "get_user_analytics_overview" -> <<r.user_id>>
      [] r.op = "get_poll_analytics" -> <<r.poll_id>>
      [] r.op = "get_voting_trends" -> <<r.user_id, r.days>>
      [] r.op = "get_popular_polls" -> <<r.limit, r.timeframe>>

\* C17: no step of an analytics call changes the store or the clock, and a
\* call that ends returns the response of the last call of the same
\* operation with the same parameters when the store and the clock have not
\* changed between the two (result holds the last response since the last
\* write).
C17_CallsArePure ==
    [][/\ (calc # NoCall \/ calc' # NoCall \/ result' # NoResult) =>
             UNCHANGED <<polls, options, votes, now>>
       /\ (/\ result.op \in AnalyticsOps
           /\ result'.op = result.op
           /\ CallParameters(result') = CallParameters(result)) =>
             result' = result]_vars

(***************************************************************************)
(* Further properties of the pure functions (SpecCalc).                    *)
(***************************************************************************)
\* C18: for every input, zero views, votes and first-window means
\* included, the engagement score and the trend direction return a value:
\* neither raises a division-by-zero error.
C18_NoDivisionByZero ==
    /\ IsEngagementScore => RatLE(Zero, calc.value)
    /\ (calc.op = "calculate_trend_direction" /\ calc.state = "done") =>
          /\ calc.status = "ok"
          /\ calc.value \in {"increasing", "decreasing", "stable"}


IsPerformanceScore ==
    calc.op = "_calculate_poll_performance_score" /\ calc.state = "done"

RatMin(a, b) == IF RatLE(a, b) THEN a ELSE b

\* v is x rounded to two decimals: a number of hundredths that is no
\* further than half a hundredth from x
RoundedToTwoDecimals(v, x) ==
    /\ 100 % v.den = 0
    /\ 200 * Abs(v.num * x.den - x.num * v.den) <= v.den * x.den

\* min(100, vote_count*10 + f*50 + r*20) with f = votes / views (0 without
\* views) and r = max(0, 1 - days_old / 30), term by term
ScoreFormula(vote_count, poll_views, days_old) ==
    LET f == IF poll_views = 0 THEN Zero ELSE Rat(vote_count, poll_views)
        decay == RatAdd(Rat(1, 1), Rat(0 - days_old, 30))
        r == IF RatLE(decay, Zero) THEN Zero ELSE decay
    IN  RatMin(Rat(100, 1),
               RatAdd(RatAdd(Rat(vote_count * 10, 1), RatMul(f, Rat(50, 1))),
                      RatMul(r, Rat(20, 1))))

\* C19 as stated: the performance score equals min(100, vote_count*10 +
\* f*50 + r*20) with f = votes/views (0 when views = 0) and r = max(0, 1 -
\* days_old/30); r is 0 from 30 days on and the score is 100 from 10 votes on.
C19_ScoreEqualsFormula ==
    IsPerformanceScore =>
        /\ calc.value = ScoreFormula(calc.vote_count, calc.poll_views, calc.days_old)
        /\ calc.days_old >= 30 =>
              calc.value = ScoreFormula(calc.vote_count, calc.poll_views, 30)
        /\ calc.vote_count >= 10 => calc.value = Rat(100, 1)

\* C19 as amended: the performance score is that minimum rounded to two
\* decimals; the recency term is 0 from 30 days on and the score is 100
\* from 10 votes on.
C19_ScoreIsRoundedFormula ==
    IsPerformanceScore =>
        /\ RoundedToTwoDecimals(calc.value,
              ScoreFormula(calc.vote_count, calc.poll_views, calc.days_old))
        /\ calc.days_old >= 30 =>
              RoundedToTwoDecimals(calc.value, RatMin(Rat(100, 1),
                  RatAdd(Rat(calc.vote_count * 10, 1),
                         IF calc.poll_views = 0 THEN Zero
                         ELSE Rat(calc.vote_count * 50, calc.poll_views))))
        /\ calc.vote_count >= 10 => calc.value = Rat(100, 1)

\* a 29 days old poll with one vote and two views scored 35.67, where the
\* unrounded sum is 35.666...
C19_Witness ==
    /\ IsPerformanceScore
    /\ calc.vote_count = 1
    /\ calc.poll_views = 2
    /\ calc.days_old = 29
    /\ calc.value = Rat(3567, 100)
    /\ calc.value # ScoreFormula(1, 2, 29)


\* clamp((base_engagement + diversity_bonus + recency_bonus) *
\* complexity_factor, 0, 100) with base_engagement 0 when views = 0, term by
\* term
ClampedEngagement(votes_, views, unique_voters, poll_age_hours, option_count) ==
    LET base_engagement == IF views = 0 THEN Zero ELSE Rat(votes_ * 100, views)
        diversity_bonus == IF votes_ = 0 THEN Zero ELSE Rat(unique_voters * 10, votes_)
        decay == RatAdd(Rat(10, 1), Rat(0 - poll_age_hours, 24))
        recency_bonus == IF RatLE(decay, Zero) THEN Zero ELSE decay
        complexity_factor == RatMin(Rat(12, 10), Rat(10 + (option_count - 2), 10))
        score == RatMul(RatAdd(RatAdd(base_engagement, diversity_bonus),
                               recency_bonus), complexity_factor)
    IN  IF RatLE(score, Zero) THEN Zero ELSE RatMin(Rat(100, 1), score)

\* C20 as stated: for all inputs calculate_engagement_score returns the
\* clamped (base_engagement + diversity_bonus + recency_bonus) *
\* complexity_factor, where base_engagement is 0 when views = 0, so that a
\* poll without views still scores its clamped bonuses.
C20_ScoreIsClampedSumForAllInputs ==
    IsEngagementScore =>
        calc.value = ClampedEngagement(calc.votes, calc.views, calc.unique_voters,
                                       calc.poll_age_hours, calc.option_count)

\* C20 as amended: calculate_engagement_score returns 0.0 when views = 0,
\* whatever the bonuses are, and the clamped (base_engagement +
\* diversity_bonus + recency_bonus) * complexity_factor otherwise.
C20_ScoreIsZeroWithoutViews ==
    IsEngagementScore =>
        calc.value = IF calc.views = 0 THEN Zero
                     ELSE ClampedEngagement(calc.votes, calc.views, calc.unique_voters,
                                            calc.poll_age_hours, calc.option_count)

\* a new poll of two options with one vote and no view scored 0.0, where
\* its bonuses alone amount to 20
C20_Witness ==
    /\ IsEngagementScore
    /\ calc.views = 0
    /\ calc.votes = 1
    /\ calc.unique_voters = 1
    /\ calc.poll_age_hours = 0
    /\ calc.option_count = 2
    /\ calc.value = Zero
    /\ ClampedEngagement(1, 0, 1, 0, 2) = Rat(20, 1)


\* C21: calculate_trend_direction(values, w) is "stable" for fewer than 2w
\* values and otherwise follows the rule of the voting trends on the means of
\* the first and the last w values: "increasing" iff last > first * 1.10,
\* "decreasing" iff last < first * 0.90, else "stable", also for a first
\* window of zeros.  (The means are compared through the window sums.)
C21_TrendDirectionFollowsTrendsRule ==
    (calc.op = "calculate_trend_direction" /\ calc.state = "done"
        /\ calc.window_size >= 1) =>
        LET first == SeqSum(FirstWindow(calc.values, calc.window_size))
            last == SeqSum(LastWindow(calc.values, calc.window_size))
        IN  calc.value =
                IF Len(calc.values) < 2 * calc.window_size THEN "stable"
                ELSE IF 10 * last > 11 * first THEN "increasing"
                ELSE IF 10 * last < 9 * first THEN "decreasing"
                ELSE "stable"


IsPercentileRank == calc.op = "calculate_percentile_rank" /\ calc.state = "done"

\* twice (count(x < v) + count(x = v) / 2) over the elements of D
RECURSIVE TwiceRank(_, _)
TwiceRank(v, D) ==
    IF D = <<>> THEN 0
    ELSE (IF Head(D) < v THEN 2 ELSE IF Head(D) = v THEN 1 ELSE 0)
         + TwiceRank(v, Tail(D))

\* C22 as stated: calculate_percentile_rank(v, D) equals (count(x<v) +
\* count(x==v)/2) / |D| * 100 for every non-empty D and 50.0 for an empty D;
\* it is 50.0 when v equals every element of D and it lies in [0, 100].
C22_RankEqualsFormula ==
    IsPercentileRank =>
        /\ calc.dataset = <<>> => calc.rank = Rat(50, 1)
        /\ calc.dataset # <<>> =>
              calc.rank = Rat(TwiceRank(calc.value, calc.dataset) * 100,
                              2 * Len(calc.dataset))
        /\ (\A i \in DOMAIN calc.dataset : calc.dataset[i] = calc.value) =>
              calc.rank = Rat(50, 1)
        /\ RatLE(Zero, calc.rank) /\ RatLE(calc.rank, Rat(100, 1))

\* C22 as amended: the rank is that quotient rounded to two decimals for a
\* non-empty D and 50.0 for an empty D; it is 50.0 when v equals every
\* element of D and it lies in [0, 100].
C22_RankIsRoundedFormula ==
    IsPercentileRank =>
        /\ calc.dataset = <<>> => calc.rank = Rat(50, 1)
        /\ calc.dataset # <<>> =>
              RoundedToTwoDecimals(calc.rank,
                  Rat(TwiceRank(calc.value, calc.dataset) * 100,
                      2 * Len(calc.dataset)))
        /\ (\A i \in DOMAIN calc.dataset : calc.dataset[i] = calc.value) =>
              calc.rank = Rat(50, 1)
        /\ RatLE(Zero, calc.rank) /\ RatLE(calc.rank, Rat(100, 1))

\* the largest of three distinct values was ranked 83.33, where the
\* quotient is 83.333...
C22_Witness ==
    /\ IsPercentileRank
    /\ calc.value = 10
    /\ calc.dataset = <<5, 10, 0>>
    /\ calc.rank = Rat(8333, 100)
    /\ calc.rank # Rat(250, 3)


IsMovingAverage == calc.op = "calculate_moving_average" /\ calc.state = "done"

\* C23: for a window of w >= 1, calculate_moving_average(values, w) returns
\* values unchanged when len(values) < w, and otherwise exactly len(values)
\* - w + 1 entries, the i-th being the mean of the w values that start at
\* the i-th.
C23_MovingAverageWindows ==
    (IsMovingAverage /\ calc.window_size >= 1) =>
        LET n == Len(calc.values)
            w == calc.window_size
        IN  /\ calc.status = "ok"
            /\ n < w => calc.value = calc.values
            /\ n >= w =>
                  /\ Len(calc.value) = n - w + 1
                  /\ \A i \in 1..(n - w + 1) :
                        /\ calc.value[i].den > 0
                        /\ calc.value[i].num * w =
                              calc.value[i].den *
                                SetSum(i..(i + w - 1), [j \in i..(i + w - 1) |-> calc.values[j]])

\* a series of five values was averaged over windows of three: three
\* entries, the second being (10 + 0 + 10) / 3; and a series of two values
\* would come back unchanged
C23_Witness ==
    /\ IsMovingAverage
    /\ calc.values = <<5, 10, 0, 10, 5>>
    /\ calc.window_size = 3
    /\ Len(calc.value) = 3
    /\ calc.value[2] = Rat(20, 3)
    /\ calculate_moving_average(<<5, 10>>, 3).value = <<5, 10>>


(***************************************************************************)
(* Properties of the activity velocity (SpecVelocity).                     *)
(***************************************************************************)
IsVelocity ==
    /\ calc.op = "calculate_activity_velocity"
    /\ calc.state = "done"
    /\ calc.status = "ok"

RECURSIVE StampsWithin(_, _, _)
\* the number of timestamps t of the list with from <= t < to
StampsWithin(stamps, from, to) ==
    IF stamps = <<>> THEN 0
    ELSE (IF from <= Head(stamps) /\ Head(stamps) < to THEN 1 ELSE 0)
         + StampsWithin(Tail(stamps), from, to)

\* for a non-empty list and a window of one hour or more: one sample per
\* started hour of the span, the i-th starting i - 1 hours after the earliest
\* timestamp and holding count / width, 0 for a window without timestamps
HourlySamples ==
    (IsVelocity /\ calc.timestamps # <<>> /\ calc.window_hours >= 1) =>
        LET T == {calc.timestamps[k] : k \in DOMAIN calc.timestamps}
            earliest == CHOOSE t \in T : \A u \in T : t <= u
            latest == CHOOSE t \in T : \A u \in T : t >= u
            n == (latest - earliest) \div MinutesPerHour + 1
        IN  /\ Len(calc.velocities) = n
            /\ \A i \in 1..n :
                  LET start == earliest + (i - 1) * MinutesPerHour
                      inside == StampsWithin(calc.timestamps, start,
                                    start + calc.window_hours * MinutesPerHour)
                  IN  /\ calc.velocities[i][1] = start
                      /\ start <= latest
                      /\ calc.velocities[i][2].num * calc.window_hours =
                            inside * calc.velocities[i][2].den
                      /\ inside = 0 => calc.velocities[i][2] = Zero

\* C24: calculate_activity_velocity terminates for every finite timestamp
\* list and, for a non-empty one, emits exactly one (window_start,
\* count/width) sample per hour of the span: the samples start at the
\* earliest timestamp, advance by one hour, the last one starts no later
\* than the latest timestamp, and a window without timestamps still gives
\* a sample, of velocity 0.
C24_VelocityTerminatesWithHourlySamples ==
    /\ []HourlySamples
    /\ <>(calc.state = "done")

\* two timestamps 200 minutes apart were sampled with a one-hour window:
\* four samples, the two in the middle empty
C24_Witness ==
    /\ IsVelocity
    /\ calc.timestamps = <<200, 0>>
    /\ calc.window_hours = 1
    /\ Len(calc.velocities) = 4
    /\ calc.velocities[2] = <<60, Zero>>
    /\ calc.velocities[3] = <<120, Zero>>
    /\ calc.velocities[4] = <<180, Rat(1, 1)>>


(***************************************************************************)
(* Properties of the engagement details (SpecEngagement).                  *)
(***************************************************************************)
IsEngagementDetails ==
    result.op = "get_poll_engagement_details" /\ result.status = 200

\* C29: in the engagement details of a poll, poll_age_hours is the number
\* of hours between the creation of the poll and the request, and
\* engagement_velocity is (total_votes + total_views) / poll_age_hours when
\* the poll is older than zero hours (both as the response rounds them, to
\* two decimals).
C29_AgeIsHoursSinceCreation ==
    (IsEngagementDetails /\ now >= polls[result.poll_id].created_at) =>
        LET elapsed == now - polls[result.poll_id].created_at
        IN  /\ result.poll_age_hours = Round2(Rat(elapsed, MinutesPerHour))
            /\ elapsed > 0 =>
                  result.engagement_velocity =
                      Round2(Rat((result.total_votes + result.total_views)
                                     * MinutesPerHour, elapsed))

=============================================================================
